---- MODULE Spec2Model ----
(***************************************************************************)
(* State-machine model of the ingestion-and-retrieval pipeline of          *)
(* semantic-formula-search: the document store (Supabase / Astra DB        *)
(* providers of src/src/lib/db.ts and src/src/lib/supabase.ts), the        *)
(* embedding generator (src/src/lib/openai.ts, perfect-openai.ts) and the  *)
(* retrieval functions of the query scripts.                               *)
(*                                                                         *)
(* Conventions.  A string is a sequence of one-character strings, so that  *)
(* length checks, the season regex and ILIKE are computed.  An optional    *)
(* field is <<>> (absent / null) or <<v>>.  An embedding is abstracted to  *)
(* [len, dir]: its number of elements and its direction; similarities      *)
(* between directions are percentages (0..100).                            *)
(***************************************************************************)
EXTENDS Integers, Sequences, FiniteSets, TLC

VARIABLES
  described,           \* the last call of createDescriptiveText and its sentence
  cfg,                 \* environment: which backends have credentials
  dbInstance,          \* db.ts:454 singleton: "none" or the provider's name
  constructed,         \* db.ts:415 number of Database objects constructed
  schema,              \* the table / collection and its index exist
  store,               \* rows of f1_documents / documents of collection f1gpt
  nextId,              \* next identifier the backend assigns
  ret,                 \* outcome of the last store operation
  currentRegionIndex,  \* perfect-openai.ts:21
  currentRegion,       \* perfect-openai.ts:22
  calls,               \* generateEmbedding calls (perfect-openai.ts), per caller
  ncalls,              \* number of generateEmbedding calls started
  batch,               \* generateBatchEmbeddings activation (openai.ts:271)
  found,               \* outcome of the last retrieval call
  run                  \* an ingestion run: guaranteedF1Ingestion / ingestJSONData

vars == <<described, cfg, dbInstance, constructed, schema, store, nextId, ret, currentRegionIndex,
          currentRegion, calls, ncalls, batch, found, run>>


-----------------------------------------------------------------------------
(* Bounds *)

MaxDocs == 3      \* documents a run stores in total
MaxBatch == 2     \* documents in one insert call
MaxCalls == 2     \* generateEmbedding calls in one process
MaxTexts == 3     \* texts in one generateBatchEmbeddings call
MaxRows == 2      \* rows of the table the retrieval scripts query
MaxRecords == 3   \* source records of one ingestion run

(* Program constants *)

EmbeddingDim == 1024

-----------------------------------------------------------------------------
(* Strings *)

None == <<>>
Some(v) == <<v>>

Digits == {"0", "1", "2", "3", "4", "5", "6", "7", "8", "9"}

Lower(c) ==
  CASE c = "M" -> "m"
    [] c = "R" -> "r"
    [] c = "A" -> "a"
    [] c = "X" -> "x"
    [] OTHER -> c

RECURSIVE LowerStr(_)
LowerStr(s) == IF s = <<>> THEN <<>> ELSE <<Lower(Head(s))>> \o LowerStr(Tail(s))

\* s contains q as a contiguous substring
Contains(s, q) ==
  \E i \in 1..(Len(s) - Len(q) + 1) : SubSeq(s, i, i + Len(q) - 1) = q

\* PostgreSQL  column ILIKE '%q%'  (a null column never matches)
ILike(col, q) ==
  /\ col # None
  /\ Contains(LowerStr(col[1]), LowerStr(q))

\* /^\d{4}$/
IsFourDigitYear(s) == Len(s) = 4 /\ \A i \in 1..4 : s[i] \in Digits

Categories ==
  {"drivers", "teams", "constructors", "races", "race_results", "qualifying",
   "sprint", "calendar", "standings", "statistics", "analysis",
   "videogame_ratings", "driver_of_day_votes", "f1_data"}

-----------------------------------------------------------------------------
(* Document validation: F1DocumentSchema *)

\* the issues of a schema whose embedding is z.array(z.number()) without
\* .length(1024)
SchemaIssuesAnyLength(doc) ==
     (IF Len(doc.text) >= 1 THEN <<>> ELSE <<"Text content is required">>)
  \o (IF Len(doc.source) >= 1 THEN <<>> ELSE <<"Source is required">>)
  \o (IF doc.category \in Categories THEN <<>> ELSE <<"Invalid enum value">>)
  \o (IF IsFourDigitYear(doc.season) THEN <<>>
      ELSE <<"Season must be a 4-digit year">>)
  \o (IF doc.position = None \/ doc.position[1] > 0 THEN <<>>
      ELSE <<"Number must be greater than 0">>)
  \o (IF doc.points = None \/ doc.points[1] >= 0 THEN <<>>
      ELSE <<"Number must be greater than or equal to 0">>)

\* the messages of the zod issues, in schema order
SchemaIssues(doc) ==
     (IF Len(doc.text) >= 1 THEN <<>> ELSE <<"Text content is required">>)
  \o (IF doc.embedding.len = EmbeddingDim THEN <<>>
      ELSE <<"Embedding must be 1024 dimensions">>)
  \o (IF Len(doc.source) >= 1 THEN <<>> ELSE <<"Source is required">>)
  \o (IF doc.category \in Categories THEN <<>> ELSE <<"Invalid enum value">>)
  \o (IF IsFourDigitYear(doc.season) THEN <<>>
      ELSE <<"Season must be a 4-digit year">>)
  \o (IF doc.position = None \/ doc.position[1] > 0 THEN <<>>
      ELSE <<"Number must be greater than 0">>)
  \o (IF doc.points = None \/ doc.points[1] >= 0 THEN <<>>
      ELSE <<"Number must be greater than or equal to 0">>)

-----------------------------------------------------------------------------
(* Inputs: the documents and queries the callers submit *)

Str_Max == <<"M", "a", "x">>
Str_RB == <<"R", "B">>
Str_rb == <<"r", "b">>
Str_x == <<"x">>
Str_csv == <<"c">>
Str_2024 == <<"2", "0", "2", "4">>
Str_2023 == <<"2", "0", "2", "3">>
Str_24 == <<"2", "4">>

Emb(n, d) == [len |-> n, dir |-> d]

Doc(t, e, src, c, s, drv, tm, pos, pts) ==
  [text |-> t, embedding |-> e, source |-> src, category |-> c, season |-> s,
   driver |-> drv, team |-> tm, position |-> pos, points |-> pts]

DocMax == Doc(Str_Max, Emb(EmbeddingDim, 0), Str_csv, "drivers", Str_2024,
              Some(Str_Max), Some(Str_RB), Some(1), Some(0))
DocTeam == Doc(Str_rb, Emb(EmbeddingDim, 53), Str_csv, "teams", Str_2024,
               None, Some(Str_RB), None, None)
\* the 3-element embedding of test-system.ts:98, all else valid
DocShortEmb == Doc(Str_Max, Emb(3, 0), Str_csv, "drivers", Str_2024,
                   Some(Str_Max), Some(Str_RB), Some(1), Some(0))
\* the invalid document of test-system.ts:96-102, one element too many
DocInvalid == Doc(<<>>, Emb(EmbeddingDim + 1, 53), <<>>, "invalid_category",
                  Str_24, None, None, Some(0), None)

\* a valid document of another season
DocOld == Doc(Str_Max, Emb(EmbeddingDim, 90), Str_csv, "drivers", Str_2023,
              Some(Str_Max), None, None, None)

DocPool == {DocMax, DocTeam, DocShortEmb, DocInvalid}

\* every sequence of at most MaxBatch documents of the pool
Batches == UNION {[1..n -> DocPool] : n \in 0..MaxBatch}

-----------------------------------------------------------------------------
(* Similarity: pgvector  1 - (a <=> b)  in percent, for the directions used *)

AngleBetween(a, b) == IF a >= b THEN a - b ELSE b - a

CosPct(deg) ==
  CASE deg = 0 -> 100
    [] deg = 53 -> 60
    [] deg = 90 -> 0
    [] OTHER -> 0

Similarity(e1, e2) == CosPct(AngleBetween(e1.dir, e2.dir))

-----------------------------------------------------------------------------
(* Backend selection: db.ts getDatabaseProvider / getDatabase *)

isSupabaseConfigured == cfg.supabase
isAstraConfigured == cfg.astra

\* supabase.ts:76 isSupabaseAvailable: configured and the client can be built
isSupabaseAvailable == isSupabaseConfigured

getDatabaseProvider ==
  IF isSupabaseConfigured /\ isSupabaseAvailable THEN "Supabase"
  ELSE IF isAstraConfigured THEN "DataStax Astra DB"
  ELSE "none"     \* throws "No database provider configured"

\* a getDatabase() that builds a new Database on every call
NeedsConstructionAlways == TRUE

\* db.ts:457  if (!dbInstance)
NeedsConstruction == dbInstance = "none"

\* the provider name held by the singleton after getDatabase()
getDatabase == IF NeedsConstruction THEN getDatabaseProvider ELSE dbInstance

\* db.ts:458 the Database objects constructed once getDatabase() has returned
Constructed == IF NeedsConstruction THEN constructed + 1 ELSE constructed

-----------------------------------------------------------------------------
(* insert *)

Outcome(o, v, w, e) == [outcome |-> o, value |-> v, warned |-> w, error |-> e]

\* a validation loop that breaks at the first failing document
validatedUntilFirstError(documents) ==
  LET bad == {i \in 1..Len(documents) : SchemaIssues(documents[i]) # <<>>}
  IN  IF bad = {} THEN documents
      ELSE SubSeq(documents, 1, (CHOOSE i \in bad : \A j \in bad : i <= j) - 1)

\* the documents whose safeParse succeeds, in input order
validatedDocuments(documents) ==
  SelectSeq(documents, LAMBDA d : SchemaIssues(d) = <<>>)

\* errors.push(`Document ${i}: ...`) for each failing index, 0-based
RECURSIVE ValidationErrorsFrom(_, _)
ValidationErrorsFrom(documents, i) ==
  IF i > Len(documents) THEN <<>>
  ELSE (IF SchemaIssues(documents[i]) = <<>> THEN <<>>
        ELSE <<[index |-> i - 1, messages |-> SchemaIssues(documents[i])]>>)
       \o ValidationErrorsFrom(documents, i + 1)

ValidationErrors(documents) == ValidationErrorsFrom(documents, 1)

\* x || null, for a string and for a number: "" and 0 are falsy
StrOrNull(opt) == IF opt = None THEN None ELSE IF opt[1] = <<>> THEN None ELSE opt
NumOrNull(opt) == IF opt = None THEN None ELSE IF opt[1] = 0 THEN None ELSE opt

\* supabase.ts:153 the row sent to the table; the backend adds the id
SupabaseRow(doc, id) ==
  [id |-> id, text |-> doc.text, embedding |-> doc.embedding,
   source |-> doc.source, category |-> doc.category, season |-> doc.season,
   driver |-> StrOrNull(doc.driver), team |-> StrOrNull(doc.team),
   position |-> NumOrNull(doc.position), points |-> NumOrNull(doc.points)]

\* db.ts:172 the document sent to the collection; the backend adds the _id
AstraRow(doc, id) ==
  [id |-> id, text |-> doc.text, embedding |-> doc.embedding,
   source |-> doc.source, category |-> doc.category, season |-> doc.season,
   driver |-> doc.driver, team |-> doc.team,
   position |-> doc.position, points |-> doc.points]

RowsOf(provider, docs, firstId) ==
  [i \in 1..Len(docs) |->
     IF provider = "Supabase" THEN SupabaseRow(docs[i], firstId + i - 1)
     ELSE AstraRow(docs[i], firstId + i - 1)]

IdsOf(rows) == [i \in 1..Len(rows) |-> rows[i].id]

\* an insert without the "All documents failed validation" throw
InsertOutcomeNoThrow(provider, errors, rows, writeOk) ==
  IF ~writeOk
    THEN [outcome |-> "raised", value |-> <<>>, warned |-> errors,
          error |-> "Failed to insert documents", rows |-> <<>>]
  ELSE [outcome |-> "returned",
        value |-> IF provider = "Supabase" THEN rows ELSE IdsOf(rows),
        warned |-> errors, error |-> "", rows |-> rows]

\* The result of insert: [outcome, value, warned, error, rows], rows being
\* what the backend stored.  writeOk: the backend write succeeds.
InsertOutcome(provider, errors, rows, writeOk) ==
  IF Len(errors) > 0 /\ Len(rows) = 0
    THEN [outcome |-> "raised", value |-> <<>>, warned |-> errors,
          error |-> "All documents failed validation", rows |-> <<>>]
  ELSE IF ~writeOk
    THEN [outcome |-> "raised", value |-> <<>>, warned |-> errors,
          error |-> "Failed to insert documents", rows |-> <<>>]
  ELSE [outcome |-> "returned",
        value |-> IF provider = "Supabase" THEN rows ELSE IdsOf(rows),
        warned |-> errors, error |-> "", rows |-> rows]

InsertResult(provider, documents, firstId, writeOk) ==
  InsertOutcome(provider, ValidationErrors(documents),
                RowsOf(provider, validatedDocuments(documents), firstId), writeOk)

-----------------------------------------------------------------------------
(* search *)

DefaultLimit == 10
MaxLimit == 50
DefaultThreshold == 70

NoFilters == [season |-> None, category |-> None, team |-> None, driver |-> None]

\* a DatabaseQuery; limit and threshold are optional, threshold in percent
Query(q, e, l, t, f) ==
  [query |-> q, embedding |-> e, limit |-> l, threshold |-> t, filters |-> f]

\* DatabaseQuerySchema.parse: the issues, and the query with defaults applied
QueryIssues(q) ==
     (IF Len(q.query) >= 1 THEN <<>> ELSE <<"Query is required">>)
  \o (IF q.embedding.len = EmbeddingDim THEN <<>>
      ELSE <<"Query embedding must be 1024 dimensions">>)
  \o (IF q.limit = None \/ (q.limit[1] > 0 /\ q.limit[1] <= MaxLimit) THEN <<>>
      ELSE <<"Invalid limit">>)
  \o (IF q.threshold = None \/ (q.threshold[1] >= 0 /\ q.threshold[1] <= 100)
      THEN <<>> ELSE <<"Invalid threshold">>)

DatabaseQuerySchemaParse(q) ==
  [q EXCEPT !.limit = IF @ = None THEN DefaultLimit ELSE @[1],
            !.threshold = IF @ = None THEN DefaultThreshold ELSE @[1]]

\* filter IS NULL OR column = filter, after  filters?.x || null
FilterAdmits(filter, column) ==
  \/ StrOrNull(filter) = None
  \/ column = filter

\* category is an enum tag, not a character sequence
CategoryFilterAdmits(filter, category) ==
  \/ filter = None
  \/ Some(category) = filter

MatchesFilters(row, f) ==
  /\ FilterAdmits(f.season, Some(row.season))
  /\ CategoryFilterAdmits(f.category, row.category)
  /\ FilterAdmits(f.team, row.team)
  /\ FilterAdmits(f.driver, row.driver)

\* every ordering of the index set I by non-increasing similarity to e:
\* ORDER BY distance leaves the order of equal distances to the backend
RECURSIVE RankedOrders(_, _, _)
RankedOrders(rows, I, e) ==
  IF I = {} THEN {<<>>}
  ELSE LET best == {i \in I : \A j \in I :
                      Similarity(rows[i].embedding, e) >= Similarity(rows[j].embedding, e)}
       IN  UNION {{<<i>> \o o : o \in RankedOrders(rows, I \ {i}, e)} : i \in best}

Truncate(s, n) == IF Len(s) <= n THEN s ELSE SubSeq(s, 1, n)

\* setup.sql:78-98 one row of search_f1_documents
SqlResultRow(row, e) ==
  [id |-> row.id, text |-> row.text, category |-> row.category,
   season |-> row.season, driver |-> row.driver, team |-> row.team,
   similarity |-> Similarity(row.embedding, e)]

\* search_f1_documents with the comparison of line 92 inverted: the rows
\* whose similarity is below match_threshold
search_f1_documents_below(rows, e, match_threshold, match_count, f) ==
  LET I == {i \in 1..Len(rows) :
             /\ Similarity(rows[i].embedding, e) < match_threshold
             /\ MatchesFilters(rows[i], f)}
  IN  {Truncate([k \in 1..Cardinality(I) |-> SqlResultRow(rows[o[k]], e)], match_count)
         : o \in RankedOrders(rows, I, e)}

\* setup.sql:54-99: the possible result sets of search_f1_documents
search_f1_documents(rows, e, match_threshold, match_count, f) ==
  LET I == {i \in 1..Len(rows) :
             /\ Similarity(rows[i].embedding, e) > match_threshold
             /\ MatchesFilters(rows[i], f)}
  IN  {Truncate([k \in 1..Cardinality(I) |-> SqlResultRow(rows[o[k]], e)], match_count)
         : o \in RankedOrders(rows, I, e)}

\* db.ts:228-240 one result of AstraDBProvider.search
AstraResultRow(row) ==
  [id |-> row.id, text |-> row.text, category |-> row.category,
   season |-> row.season, driver |-> row.driver, team |-> row.team,
   similarity |-> 100]

\* db.ts:202-225: find(filter, {sort: {$vector}, limit}), no threshold
AstraFind(rows, e, limit, f) ==
  LET I == {i \in 1..Len(rows) : MatchesFilters(rows[i], f)}
  IN  {Truncate([k \in 1..Cardinality(I) |-> AstraResultRow(rows[o[k]])], limit)
         : o \in RankedOrders(rows, I, e)}

\* The possible results of search on the provider.  callOk: the backend call
\* (rpc / find) succeeds.
SearchResults(provider, rows, queryData, callOk) ==
  IF QueryIssues(queryData) # <<>>
    THEN {Outcome("raised", <<>>, QueryIssues(queryData), "ZodError")}
  ELSE IF ~callOk
    THEN {Outcome("raised", <<>>, <<>>, "Search failed")}
  ELSE LET q == DatabaseQuerySchemaParse(queryData)
       IN  {Outcome("returned", r, <<>>, "") :
              r \in IF provider = "Supabase"
                    THEN search_f1_documents(rows, q.embedding, q.threshold, q.limit, q.filters)
                    ELSE AstraFind(rows, q.embedding, q.limit, q.filters)}

DriversOnly == [NoFilters EXCEPT !.category = Some("drivers")]

QueryPool ==
  {Query(Str_Max, Emb(EmbeddingDim, d), Some(l), Some(t), f) :
     d \in {0, 53}, l \in {1, 2}, t \in {50, 90}, f \in {NoFilters, DriversOnly}}
  \cup {Query(Str_Max, Emb(EmbeddingDim, 0), None, None, NoFilters),
        Query(Str_Max, Emb(EmbeddingDim, 0), Some(2), Some(60), NoFilters),
        Query(Str_Max, Emb(3, 0), Some(1), None, NoFilters),
        Query(Str_Max, Emb(EmbeddingDim, 0), Some(MaxLimit + 1), None, NoFilters)}

NoQuery == Query(<<>>, Emb(0, 0), None, None, NoFilters)

-----------------------------------------------------------------------------
(* The store operations, through the Database facade (db.ts:412-451) *)


Ret(op, documents, queryData, outcome) ==
  [op |-> op, docs |-> documents, query |-> queryData, provider |-> getDatabase,
   outcome |-> outcome.outcome, value |-> outcome.value,
   warned |-> outcome.warned, error |-> outcome.error]

NotConfigured == Outcome("raised", <<>>, <<>>, "No database provider configured")

\* Database.insertDocuments -> provider.insert
Insert(documents, writeOk) ==
  IF getDatabase = "none"
    THEN /\ ret' = Ret("insert", documents, NoQuery, NotConfigured)
         /\ UNCHANGED <<dbInstance, constructed, store, nextId>>
    ELSE \E r \in {InsertResult(getDatabase, documents, nextId, writeOk)} :
             /\ nextId - 1 + Len(r.rows) <= MaxDocs
             /\ dbInstance' = getDatabase /\ constructed' = Constructed
             /\ store' = store \o r.rows
             /\ nextId' = nextId + Len(r.rows)
             /\ ret' = Ret("insert", documents, NoQuery,
                           Outcome(r.outcome, r.value, r.warned, r.error))

\* Database.searchDocuments -> provider.search
Search(queryData, callOk) ==
  IF getDatabase = "none"
    THEN /\ ret' = Ret("search", <<>>, queryData, NotConfigured)
         /\ UNCHANGED <<dbInstance, constructed, store, nextId>>
    ELSE \E r \in SearchResults(getDatabase, store, queryData, callOk) :
           /\ dbInstance' = getDatabase /\ constructed' = Constructed
           /\ ret' = Ret("search", <<>>, queryData, r)
           /\ UNCHANGED <<store, nextId>>

\* Database.clearAllDocuments -> provider.clear
ClearDeletesBeforeRaising(callOk) ==
  IF getDatabase = "none"
    THEN /\ ret' = Ret("clear", <<>>, NoQuery, NotConfigured)
         /\ UNCHANGED <<dbInstance, constructed, store, nextId>>
    ELSE /\ dbInstance' = getDatabase /\ constructed' = Constructed
         /\ store' = IF callOk THEN <<>> ELSE SubSeq(store, 2, Len(store))
         /\ ret' = Ret("clear", <<>>, NoQuery,
                       IF callOk THEN Outcome("returned", <<>>, <<>>, "")
                       ELSE Outcome("raised", <<>>, <<>>, "Failed to clear documents"))
         /\ UNCHANGED nextId

Clear(callOk) ==
  IF getDatabase = "none"
    THEN /\ ret' = Ret("clear", <<>>, NoQuery, NotConfigured)
         /\ UNCHANGED <<dbInstance, constructed, store, nextId>>
    ELSE /\ dbInstance' = getDatabase /\ constructed' = Constructed
         /\ store' = IF callOk THEN <<>> ELSE store
         /\ ret' = Ret("clear", <<>>, NoQuery,
                       IF callOk THEN Outcome("returned", <<>>, <<>>, "")
                       ELSE Outcome("raised", <<>>, <<>>, "Failed to clear documents"))
         /\ UNCHANGED nextId

-----------------------------------------------------------------------------
(* getStatistics *)

AstraStatsLimit == 10000

\* the distinct values of a column
DistinctOf(rows, col) == {rows[i][col] : i \in 1..Len(rows)}

\* SELECT col, count(*) ... GROUP BY col  /  the forEach tally of db.ts:280
CountBy(rows, col) ==
  [v \in DistinctOf(rows, col) |->
     Cardinality({i \in 1..Len(rows) : rows[i][col] = v})]

\* setup.sql:106-159 get_f1_statistics.  count(*) of no row is 0, while
\* jsonb_agg and jsonb_object_agg of no row are NULL.
get_f1_statistics(rows) ==
  [totalDocuments |-> Len(rows),
   categories |-> IF rows = <<>> THEN None ELSE Some(DistinctOf(rows, "category")),
   seasons |-> IF rows = <<>> THEN None ELSE Some(DistinctOf(rows, "season")),
   documentsByCategory |->
     IF rows = <<>> THEN None ELSE Some(CountBy(rows, "category")),
   documentsBySeason |->
     IF rows = <<>> THEN None ELSE Some(CountBy(rows, "season"))]

\* db.ts:261-294 AstraDBProvider.getStatistics over find(null, {limit: 10000})
AstraStatistics(rows) ==
  LET allDocs == Truncate(rows, AstraStatsLimit)
  IN  [totalDocuments |-> Len(allDocs),
       categories |-> Some(DistinctOf(allDocs, "category")),
       seasons |-> Some(DistinctOf(allDocs, "season")),
       documentsByCategory |-> Some(CountBy(allDocs, "category")),
       documentsBySeason |-> Some(CountBy(allDocs, "season"))]

\* supabase.ts:293-324 getF1Statistics returns data || {...}; the rpc always
\* yields an object
StatisticsResult(provider, rows, callOk) ==
  IF ~callOk THEN Outcome("raised", <<>>, <<>>, "Failed to fetch statistics")
  ELSE Outcome("returned",
               IF provider = "Supabase" THEN get_f1_statistics(rows)
               ELSE AstraStatistics(rows),
               <<>>, "")

\* Database.getStatistics -> provider.getStatistics
GetStatistics(callOk) ==
  IF getDatabase = "none"
    THEN /\ ret' = Ret("getStatistics", <<>>, NoQuery, NotConfigured)
         /\ UNCHANGED <<dbInstance, constructed, store, nextId>>
    ELSE /\ dbInstance' = getDatabase /\ constructed' = Constructed
         /\ ret' = Ret("getStatistics", <<>>, NoQuery,
                       StatisticsResult(getDatabase, store, callOk))
         /\ UNCHANGED <<store, nextId>>

-----------------------------------------------------------------------------
(* getByFilters *)

FilterDefaultLimit == 50
FilterMaxLimit == 100

\* db.ts:249 / supabase.ts:254   Math.min(filters.limit || 50, 100)
FilterLimitUncapped(l) ==
  IF l = None \/ l[1] = 0 THEN FilterDefaultLimit ELSE l[1]

FilterLimit(l) ==
  LET asked == IF l = None \/ l[1] = 0 THEN FilterDefaultLimit ELSE l[1]
  IN  IF asked <= FilterMaxLimit THEN asked ELSE FilterMaxLimit

\* db.ts:246-258 and supabase.ts:242-290: the first rows with the given
\* column values
GetByFiltersResult(provider, rows, f, l, callOk) ==
  IF ~callOk
    THEN Outcome("raised", <<>>, <<>>, "Failed to fetch documents")
  ELSE LET matching == SelectSeq(rows, LAMBDA row : MatchesFilters(row, f))
           n == IF Len(matching) <= FilterLimit(l) THEN Len(matching)
                ELSE FilterLimit(l)
       IN  Outcome("returned", SubSeq(matching, 1, n), <<>>, "")

\* Database.getDocumentsByFilters -> provider.getByFilters
GetByFilters(f, l, callOk) ==
  IF getDatabase = "none"
    THEN /\ ret' = Ret("getByFilters", <<>>, NoQuery, NotConfigured)
         /\ UNCHANGED <<dbInstance, constructed, store, nextId>>
    ELSE /\ dbInstance' = getDatabase /\ constructed' = Constructed
         /\ ret' = Ret("getByFilters", <<>>, Query(<<>>, Emb(0, 0), l, None, f),
                       GetByFiltersResult(getDatabase, store, f, l, callOk))
         /\ UNCHANGED <<store, nextId>>

-----------------------------------------------------------------------------
(* initialize and healthCheck *)

\* the answers of the backend to the request of initialize / healthCheck
\* when the table or collection is or is not there: "failed" is a request
\* that got no answer or an error of another kind
ProbeResults(exists) ==
  {"failed"} \cup (IF exists THEN {"ok"} ELSE {"42P01"})

\* db.ts:120-125 createCollection: a collection that is there is either
\* accepted or reported as "already exists"
CreateResults(exists) ==
  {"failed"} \cup (IF exists THEN {"ok", "already exists"} ELSE {"created"})

InitializeResults(provider, exists) ==
  IF provider = "Supabase" THEN ProbeResults(exists) ELSE CreateResults(exists)

\* AstraDBProvider.initialize that lets every createCollection error through
InitializeOutcomeNoCatch(provider, result) ==
  IF provider = "Supabase"
    THEN IF ~isSupabaseAvailable
           THEN Outcome("returned", <<>>, <<>>, "")
         ELSE IF result = "42P01"
           THEN Outcome("raised", <<>>, <<>>, "Database tables not found")
         ELSE Outcome("returned", <<>>, <<>>, "")
  ELSE IF result = "failed"
         THEN Outcome("raised", <<>>, <<>>, "request failed")
       ELSE IF result = "already exists"
         THEN Outcome("raised", <<>>, <<>>, "already exists")
       ELSE Outcome("returned", <<>>, <<>>, "")

\* supabase.ts:85-116 initializeDatabase: only the error code 42P01 of the
\* select raises; db.ts:116-138 AstraDBProvider.initialize: every error of
\* createCollection but "already exists" raises
InitializeOutcome(provider, result) ==
  IF provider = "Supabase"
    THEN IF ~isSupabaseAvailable
           THEN Outcome("returned", <<>>, <<>>, "")
         ELSE IF result = "42P01"
           THEN Outcome("raised", <<>>, <<>>, "Database tables not found")
         ELSE Outcome("returned", <<>>, <<>>, "")
  ELSE IF result = "failed"
         THEN Outcome("raised", <<>>, <<>>, "request failed")
       ELSE Outcome("returned", <<>>, <<>>, "")

\* Database.initialize -> provider.initialize
Initialize(result) ==
  IF getDatabase = "none"
    THEN /\ ret' = Ret("initialize", <<>>, NoQuery, NotConfigured)
         /\ UNCHANGED <<dbInstance, constructed, store, nextId, schema>>
    ELSE /\ result \in InitializeResults(getDatabase, schema)
         /\ dbInstance' = getDatabase /\ constructed' = Constructed
         /\ ret' = Ret("initialize", <<>>, NoQuery,
                       InitializeOutcome(getDatabase, result))
         /\ schema' = (schema \/ result = "created")
         /\ UNCHANGED <<store, nextId>>

\* setup.sql:15-99 run in the Supabase dashboard (every statement is
\* IF NOT EXISTS / OR REPLACE), or the collection created by
\* recreate-collection.ts
SetupSchema ==
  /\ ~schema
  /\ schema' = TRUE
  /\ UNCHANGED <<dbInstance, constructed, store, nextId, ret>>

Health(status, configured, connectionWorking, tablesExist, documentsCount, error) ==
  [status |-> status,
   details |-> [configured |-> configured,
                connectionWorking |-> connectionWorking,
                tablesExist |-> tablesExist,
                documentsCount |-> documentsCount, error |-> error]]

\* supabase.ts:483-541 healthCheck.  countOk: the count query succeeds.
supabaseHealthCheck(rows, probe, countOk) ==
  LET details(cw, te, n, e) ==
        [supabaseConfigured |-> isSupabaseConfigured, connectionWorking |-> cw,
         tablesExist |-> te, documentsCount |-> n, error |-> e]
  IN  IF ~isSupabaseConfigured
        THEN [status |-> "unhealthy",
              details |-> details(FALSE, FALSE, 0, "Supabase not configured")]
      ELSE IF probe = "42P01"
        THEN [status |-> "unhealthy",
              details |-> details(FALSE, FALSE, 0, "Tables do not exist")]
      ELSE IF probe = "failed"
        THEN [status |-> "unhealthy",
              details |-> details(FALSE, FALSE, 0, "request failed")]
      ELSE [status |-> "healthy",
            details |-> details(TRUE, TRUE,
                                IF countOk THEN Len(rows) ELSE 0, "")]

\* db.ts:379-393 SupabaseProvider.healthCheck
SupabaseProviderHealthCheck(rows, probe, countOk) ==
  LET result == supabaseHealthCheck(rows, probe, countOk)
  IN  Health(result.status, result.details.supabaseConfigured,
             result.details.connectionWorking, result.details.tablesExist,
             result.details.documentsCount, result.details.error)

\* db.ts:304-333 AstraDBProvider.healthCheck: countDocuments raises when the
\* request fails and when the collection is missing
AstraHealthCheck(rows, probe) ==
  IF ~isAstraConfigured
    THEN Health("unhealthy", FALSE, FALSE, FALSE, 0,
                "DataStax Astra DB not configured")
  ELSE IF probe = "failed"
    THEN Health("unhealthy", TRUE, FALSE, FALSE, 0, "request failed")
  ELSE IF probe = "42P01"
    THEN Health("unhealthy", TRUE, FALSE, FALSE, 0, "collection not found")
  ELSE Health("healthy", TRUE, TRUE, TRUE, Len(rows), "")

ProviderHealthCheck(provider, rows, probe, countOk) ==
  IF provider = "Supabase" THEN SupabaseProviderHealthCheck(rows, probe, countOk)
  ELSE AstraHealthCheck(rows, probe)

\* Database.healthCheck -> provider.healthCheck, on getDatabase()
HealthCheck(probe, countOk) ==
  IF getDatabase = "none"
    THEN /\ ret' = Ret("healthCheck", <<>>, NoQuery, NotConfigured)
         /\ UNCHANGED <<dbInstance, constructed, store, nextId>>
    ELSE /\ probe \in ProbeResults(schema)
         /\ dbInstance' = getDatabase /\ constructed' = Constructed
         /\ ret' = Ret("healthCheck", <<>>, NoQuery,
                       Outcome("returned",
                               <<ProviderHealthCheck(getDatabase, store, probe, countOk)>>,
                               <<>>, ""))
         /\ UNCHANGED <<store, nextId>>

\* healthCheck of supabase.ts called without the facade
DirectHealthCheck(probe, countOk) ==
  /\ probe \in ProbeResults(schema)
  /\ ret' = [op |-> "supabase.healthCheck", docs |-> <<>>, query |-> NoQuery,
             provider |-> "Supabase", outcome |-> "returned",
             value |-> <<supabaseHealthCheck(store, probe, countOk)>>,
             warned |-> <<>>, error |-> ""]
  /\ UNCHANGED <<dbInstance, constructed, store, nextId>>

-----------------------------------------------------------------------------
(* Multi-region failover: perfect-openai.ts *)

BEDROCK_REGIONS ==
  <<"us-east-1", "us-west-2", "eu-west-1", "ap-southeast-1", "eu-central-1",
    "ap-northeast-1">>

\* process.env.AWS_REGION: unset, a region of the list, a region outside it
EnvRegions == {"", "eu-west-1", "sa-east-1"}

\* perfect-openai.ts:22  process.env.AWS_REGION || BEDROCK_REGIONS[0]
InitialRegion(env) == IF env = "" THEN BEDROCK_REGIONS[1] ELSE env

Callers == {"a", "b"}

IdleCall == [pc |-> "idle", attempts |-> 0, tried |-> <<>>, outcome |-> "none"]

InFlight(c) == calls[c].pc \in {"await", "retry"}

\* generateEmbedding is entered and runs to its first await: the request is
\* sent to the client of the current region (perfect-openai.ts:62-78)
EmbedCall(c) ==
  /\ calls[c].pc \in {"idle", "done"}
  /\ \A d \in Callers : ~InFlight(d)
  /\ ncalls < MaxCalls
  /\ ncalls' = ncalls + 1
  /\ calls' = [calls EXCEPT ![c] =
       [pc |-> "await", attempts |-> 0, tried |-> <<currentRegion>>,
        outcome |-> "none"]]
  /\ UNCHANGED <<currentRegionIndex, currentRegion>>

\* a request handler enters generateEmbedding while the calls of other
\* requests may be waiting for their answers (route.ts:303)
EmbedCallConcurrent(c) ==
  /\ calls[c].pc \in {"idle", "done"}
  /\ ncalls < MaxCalls
  /\ ncalls' = ncalls + 1
  /\ calls' = [calls EXCEPT ![c] =
       [pc |-> "await", attempts |-> 0, tried |-> <<currentRegion>>,
        outcome |-> "none"]]
  /\ UNCHANGED <<currentRegionIndex, currentRegion>>

\* the request succeeds: the embedding is returned (perfect-openai.ts:78-86)
EmbedSucceed(c) ==
  /\ calls[c].pc = "await"
  /\ calls' = [calls EXCEPT ![c].pc = "done", ![c].outcome = "returned"]
  /\ UNCHANGED <<currentRegionIndex, currentRegion, ncalls>>

\* tryDifferentRegion (perfect-openai.ts:50-59) can advance the cursor
CanSwitchRegion == currentRegionIndex < Len(BEDROCK_REGIONS) - 1

\* the request fails: the catch block (perfect-openai.ts:87-98)
EmbedFail(c) ==
  /\ calls[c].pc = "await"
  /\ LET attempts == calls[c].attempts + 1
     IN  IF attempts < Len(BEDROCK_REGIONS) /\ CanSwitchRegion
           THEN /\ currentRegionIndex' = currentRegionIndex + 1
                /\ currentRegion' = BEDROCK_REGIONS[currentRegionIndex' + 1]
                /\ calls' = [calls EXCEPT ![c].pc = "retry",
                                          ![c].attempts = attempts]
           ELSE /\ calls' = [calls EXCEPT ![c].pc = "done",
                                          ![c].attempts = attempts,
                                          ![c].outcome = "raised"]
                /\ UNCHANGED <<currentRegionIndex, currentRegion>>
  /\ UNCHANGED ncalls

\* continue: the loop sends the request again, to the client of the region
\* that is current now (perfect-openai.ts:91-93, 66-78)
EmbedRetry(c) ==
  /\ calls[c].pc = "retry"
  /\ calls' = [calls EXCEPT ![c].pc = "await",
                            ![c].tried = Append(@, currentRegion)]
  /\ UNCHANGED <<currentRegionIndex, currentRegion, ncalls>>

-----------------------------------------------------------------------------
(* The embedding service: text -> vector *)

\* the direction of the vector the embedding model gives a text
TextDirection(text) ==
  CASE LowerStr(text) = LowerStr(Str_Max) -> 0
    [] LowerStr(text) = LowerStr(Str_RB) -> 53
    [] text # <<>> /\ \A i \in 1..Len(text) : text[i] = "b" -> 53
    [] OTHER -> 90

EmbeddingOf(text) == Emb(EmbeddingDim, TextDirection(text))

-----------------------------------------------------------------------------
(* Batch embedding: openai.ts generateBatchEmbeddings *)

DefaultBatchSize == 5

TextPool == {Str_Max, Str_rb, <<>>}

TextLists == UNION {[1..n -> TextPool] : n \in 0..MaxTexts}

BatchSizes == {None, Some(1), Some(2)}

IdleBatch ==
  [pc |-> "idle", texts |-> <<>>, batchSize |-> 0, i |-> 0, issued |-> 0,
   status |-> <<>>, results |-> <<>>, errors |-> <<>>, returned |-> <<>>]

\* a chunk that takes every remaining text
ChunkLenUnbounded(b) == Len(b.texts) - b.i

\* the texts of the chunk that starts at index i: texts.slice(i, i + batchSize)
ChunkLen(b) ==
  IF b.i + b.batchSize <= Len(b.texts) THEN b.batchSize ELSE Len(b.texts) - b.i

\* 1-based positions of the chunk's texts
ChunkIndices(b) == (b.i + 1)..(b.i + ChunkLen(b))

EmbeddingEntry(text) == [kind |-> "embedding", embedding |-> EmbeddingOf(text)]

\* errors.push(`Text ${i + index}: ${message}`)
ErrorEntry(index, message) == [kind |-> "error", index |-> index, message |-> message]

\* generateBatchEmbeddings(texts, batchSize) is called (openai.ts:271-305)
BatchStart(texts, batchSize) ==
  /\ batch.pc \in {"idle", "done"}
  /\ batch' =
       IF Len(texts) = 0
         THEN [IdleBatch EXCEPT !.pc = "done"]
         ELSE [IdleBatch EXCEPT
                 !.pc = "chunk", !.texts = texts,
                 !.batchSize = IF batchSize = None THEN DefaultBatchSize
                               ELSE batchSize[1],
                 !.status = [k \in 1..Len(texts) |-> "pending"]]

\* the staggered delay of the next text of the chunk elapses and
\* generateEmbedding is called for it (openai.ts:297-298, 66-115); an empty
\* text fails EmbeddingRequestSchema before any request is sent
BatchIssue ==
  /\ batch.pc = "chunk"
  /\ batch.issued < ChunkLen(batch)
  /\ LET k == batch.i + batch.issued + 1
     IN  batch' =
           IF Len(batch.texts[k]) >= 1
             THEN [batch EXCEPT !.issued = @ + 1, !.status[k] = "inflight"]
             ELSE [batch EXCEPT
                     !.issued = @ + 1, !.status[k] = "failed",
                     !.errors = Append(@, ErrorEntry(k - 1, "Validation error"))]

\* a call in flight settles (openai.ts:298-304)
BatchSettle(k, ok) ==
  /\ batch.pc = "chunk"
  /\ k \in ChunkIndices(batch)
  /\ batch.status[k] = "inflight"
  /\ batch' =
       IF ok THEN [batch EXCEPT !.status[k] = "ok"]
       ELSE [batch EXCEPT
               !.status[k] = "failed",
               !.errors = Append(@, ErrorEntry(k - 1, "Failed to generate embedding"))]

\* the non-null results of the chunk, in the order of the texts
RECURSIVE ChunkResults(_, _, _)
ChunkResults(b, from, to) ==
  IF from > to THEN <<>>
  ELSE (IF b.status[from] = "ok" THEN <<EmbeddingEntry(b.texts[from])>> ELSE <<>>)
       \o ChunkResults(b, from + 1, to)

\* Promise.all resolves: the results are appended; after the last chunk the
\* function returns `results` (openai.ts:307-327)
BatchChunkDone ==
  /\ batch.pc = "chunk"
  /\ batch.issued = ChunkLen(batch)
  /\ \A k \in ChunkIndices(batch) : batch.status[k] \in {"ok", "failed"}
  /\ LET results == batch.results
                      \o ChunkResults(batch, batch.i + 1, batch.i + ChunkLen(batch))
     IN  batch' =
           IF batch.i + batch.batchSize < Len(batch.texts)
             THEN [batch EXCEPT !.pc = "delay", !.results = results]
             ELSE [batch EXCEPT !.pc = "done", !.results = results,
                                !.returned = results]

\* the delay between batches elapses; i += batchSize (openai.ts:315-317, 287)
BatchDelayDone ==
  /\ batch.pc = "delay"
  /\ batch' = [batch EXCEPT !.pc = "chunk", !.i = @ + batch.batchSize,
                            !.issued = 0]

-----------------------------------------------------------------------------
(* Retrieval: the query functions of the scripts, on the Supabase table *)

\* every arrangement of at most n distinct members of the index set I:
\* a SELECT without ORDER BY leaves the order, and so the rows a LIMIT
\* keeps, to the backend
RECURSIVE Arrangements(_, _)
Arrangements(I, n) ==
  IF n = 0 \/ I = {} THEN {<<>>}
  ELSE UNION {{<<i>> \o o : o \in Arrangements(I \ {i}, n - 1)} : i \in I}

\* .or(`text.ilike.%q%,driver.ilike.%q%,team.ilike.%q%`)
MatchesTextDriverTeam(row, q) ==
  ILike(Some(row.text), q) \/ ILike(row.driver, q) \/ ILike(row.team, q)

\* .ilike("text", `%q%`)
MatchesText(row, q) == ILike(Some(row.text), q)

\* a fallback row that keeps no similarity of its own: ({ ...doc })
FallbackRowUnscored(row) ==
  [id |-> row.id, text |-> row.text, category |-> row.category,
   season |-> row.season, driver |-> row.driver, team |-> row.team,
   similarity |-> 0]

\* ({ ...doc, similarity: 0.5 })
FallbackRow(row) ==
  [id |-> row.id, text |-> row.text, category |-> row.category,
   season |-> row.season, driver |-> row.driver, team |-> row.team,
   similarity |-> 50]

\* the possible data of a fallback select over the index set I, limited
FallbackData(rows, I, limit) ==
  {[k \in 1..Len(o) |-> FallbackRow(rows[o[k]])] : o \in Arrangements(I, limit)}

Found(path, results, vector) ==
  [outcome |-> "returned", path |-> path, results |-> results, vector |-> vector]

\* test-f1-queries.ts:48-111 searchF1Documents(query, limit = 5, threshold = 0.3)
searchF1Documents(rows, query, limit, threshold, embedOk, rpcOk, lexOk) ==
  LET match_count == IF limit = None THEN 5 ELSE limit[1]
      match_threshold == IF threshold = None THEN 30 ELSE threshold[1]
      I == {i \in 1..Len(rows) : MatchesTextDriverTeam(rows[i], query)}
  IN  IF ~embedOk THEN {Found("catch", <<>>, <<>>)}
      ELSE IF ~rpcOk
        THEN IF ~lexOk THEN {Found("fallback error", <<>>, <<>>)}
             ELSE {Found("fallback", d, <<>>) : d \in FallbackData(rows, I, match_count)}
      ELSE UNION {
             IF data = <<>> /\ lexOk
               THEN {Found("text search", d, data) : d \in FallbackData(rows, I, match_count)}
               ELSE {Found("vector", data, data)}
             : data \in search_f1_documents(rows, EmbeddingOf(query), match_threshold,
                                            match_count, NoFilters)}

\* searchF1Documents of part_001 without its outer try/catch: the
\* fallbackError it throws reaches the caller
searchF1DocumentsDemoUncaught(rows, query, limit, embedOk, rpcOk, lexOk) ==
  LET match_count == IF limit = None THEN 5 ELSE limit[1]
      I == {i \in 1..Len(rows) : MatchesTextDriverTeam(rows[i], query)}
  IN  IF ~embedOk THEN {[Found("catch", <<>>, <<>>) EXCEPT !.outcome = "raised"]}
      ELSE IF ~rpcOk
        THEN IF ~lexOk
               THEN {[Found("catch", <<>>, <<>>) EXCEPT !.outcome = "raised"]}
             ELSE {Found("fallback", d, <<>>) : d \in FallbackData(rows, I, match_count)}
      ELSE {Found("vector", data, data) :
              data \in search_f1_documents(rows, EmbeddingOf(query), 30, match_count,
                                           NoFilters)}

\* unnamed/part_001:47-84 searchF1Documents(query, limit = 5)
searchF1DocumentsDemo(rows, query, limit, embedOk, rpcOk, lexOk) ==
  LET match_count == IF limit = None THEN 5 ELSE limit[1]
      I == {i \in 1..Len(rows) : MatchesTextDriverTeam(rows[i], query)}
  IN  IF ~embedOk THEN {Found("catch", <<>>, <<>>)}
      ELSE IF ~rpcOk
        THEN IF ~lexOk THEN {Found("catch", <<>>, <<>>)}
             ELSE {Found("fallback", d, <<>>) : d \in FallbackData(rows, I, match_count)}
      ELSE {Found("vector", data, data) :
              data \in search_f1_documents(rows, EmbeddingOf(query), 30, match_count,
                                           NoFilters)}

\* category || null, season || null
ScriptFilters(category, season) ==
  [NoFilters EXCEPT !.category = category, !.season = StrOrNull(season)]

\* unnamed/part_000:62-134 enhancedSearch(query, category, season, limit = 15)
enhancedSearch(rows, query, category, season, limit, embedOk, rpcOk, lexOk) ==
  LET match_count == IF limit = None THEN 15 ELSE limit[1]
      f == ScriptFilters(category, season)
      I == {i \in 1..Len(rows) :
             MatchesTextDriverTeam(rows[i], query) /\ MatchesFilters(rows[i], f)}
  IN  IF ~embedOk THEN {Found("error", <<>>, <<>>)}
      ELSE IF ~rpcOk
        THEN IF ~lexOk THEN {Found("text_fallback", <<>>, <<>>)}
             ELSE {Found("text_fallback", d, <<>>) : d \in FallbackData(rows, I, match_count)}
      ELSE {Found("vector", data, data) :
              data \in search_f1_documents(rows, EmbeddingOf(query), 25, match_count, f)}

\* f1-analytics.ts:85-126 searchF1Data(query, category, season, limit = 10)
searchF1Data(rows, query, category, season, limit, embedOk, rpcOk, lexOk) ==
  LET match_count == IF limit = None THEN 10 ELSE limit[1]
      f == ScriptFilters(category, season)
      I == {i \in 1..Len(rows) : MatchesText(rows[i], query) /\ MatchesFilters(rows[i], f)}
  IN  IF ~embedOk THEN {Found("catch", <<>>, <<>>)}
      ELSE IF ~rpcOk
        THEN IF ~lexOk THEN {Found("catch", <<>>, <<>>)}
             ELSE {Found("fallback", d, <<>>) : d \in FallbackData(rows, I, match_count)}
      ELSE {Found("vector", data, data) :
              data \in search_f1_documents(rows, EmbeddingOf(query), 20, match_count, f)}

Variants == {"test-f1-queries", "part_001", "part_000", "f1-analytics"}

\* the results a retrieval function can give for a call
RetrieveResults(variant, rows, call) ==
  CASE variant = "test-f1-queries" ->
         searchF1Documents(rows, call.query, call.limit, call.threshold,
                           call.embedOk, call.rpcOk, call.lexOk)
    [] variant = "part_001" ->
         searchF1DocumentsDemo(rows, call.query, call.limit,
                               call.embedOk, call.rpcOk, call.lexOk)
    [] variant = "part_000" ->
         enhancedSearch(rows, call.query, call.category, None, call.limit,
                        call.embedOk, call.rpcOk, call.lexOk)
    [] variant = "f1-analytics" ->
         searchF1Data(rows, call.query, call.category, None, call.limit,
                      call.embedOk, call.rpcOk, call.lexOk)

\* which of the embedding request, the rpc and the fallback select succeed
Scenarios ==
  {<<FALSE, TRUE, TRUE>>, <<TRUE, FALSE, TRUE>>, <<TRUE, FALSE, FALSE>>,
   <<TRUE, TRUE, TRUE>>, <<TRUE, TRUE, FALSE>>}

\* the calls: each function with the parameters it takes
CallsOf(v, thresholds, categories) ==
  {[variant |-> v, query |-> q, limit |-> l, threshold |-> t, category |-> c,
    embedOk |-> sc[1], rpcOk |-> sc[2], lexOk |-> sc[3]] :
     q \in {Str_RB, Str_x}, l \in {None, Some(1)}, t \in thresholds,
     c \in categories, sc \in Scenarios}

RetrieveCalls ==
  CallsOf("test-f1-queries", {None, Some(90)}, {None})
    \cup CallsOf("part_001", {None}, {None})
    \cup CallsOf("part_000", {None}, {None, Some("drivers")})
    \cup CallsOf("f1-analytics", {None}, {None, Some("drivers")})

NoCall ==
  [variant |-> "none", query |-> <<>>, limit |-> None, threshold |-> None,
   category |-> None, embedOk |-> TRUE, rpcOk |-> TRUE, lexOk |-> TRUE]

\* a retrieval function is called; the scripts read the Supabase table
Retrieve(call) ==
  /\ cfg.supabase
  /\ dbInstance \in {"none", "Supabase"}
  /\ \E r \in RetrieveResults(call.variant, store, call) :
       found' = [call |-> call, rows |-> store, outcome |-> r.outcome,
                 path |-> r.path, results |-> r.results, vector |-> r.vector]

-----------------------------------------------------------------------------
(* Ingestion runs: guaranteedF1Ingestion (unnamed/part_003 and               *)
(* src/guaranteed-f1.ts) and ingestJSONData (src/json-ingest.ts)             *)

MinTextLength == 10        \* part_003:346  text.length < 10
SimpleMinTextLength == 20  \* guaranteed-f1.ts:43  text.length > 20
UploadBatchSize == 5       \* guaranteed-f1.ts:81
InsertBatchCap == 10       \* part_003:538

\* a descriptive text of 25 characters
Str_long == [i \in 1..25 |-> "a"]

\* A source record: the document its row is normalized to (embedding not yet
\* filled) and whether the embedding call for its text succeeds.
Rec(doc, embedOk) == [doc |-> doc, embedOk |-> embedOk]

\* part_003:352-363 the draft built from a row: the document fields and the
\* two further columns Track and Constructor; <<>> is a column the row lacks
Draft(doc, track, constructor) ==
  [text |-> doc.text, embedding |-> doc.embedding, source |-> doc.source,
   category |-> doc.category, season |-> doc.season, driver |-> doc.driver,
   team |-> doc.team, position |-> doc.position, points |-> doc.points,
   track |-> track, constructor |-> constructor]

RowFull == Draft(Doc(Str_long, Emb(0, 0), Str_csv, "drivers", Str_2024,
                     Some(Str_Max), Some(Str_RB), Some(1), Some(0)),
                 Some(Str_x), Some(Str_RB))
\* a row whose descriptive text is too short
RowShort == Draft(Doc(Str_Max, Emb(0, 0), Str_csv, "drivers", Str_2024,
                      Some(Str_Max), Some(Str_RB), Some(1), Some(0)),
                  Some(Str_x), Some(Str_RB))
\* a drivers row with the columns Driver, Team, Points and Season only
RowDriverOnly == Draft(Doc(Str_long, Emb(0, 0), Str_csv, "drivers", Str_2024,
                           Some(Str_Max), Some(Str_RB), None, Some(0)),
                       None, None)

\* a teams row with another text
Str_long_team == [i \in 1..25 |-> "b"]
RowTeam == Draft(Doc(Str_long_team, Emb(0, 0), Str_csv, "teams", Str_2024,
                     Some(Str_Max), Some(Str_RB), Some(1), Some(0)),
                 Some(Str_x), Some(Str_RB))

RecordPool == {Rec(RowFull, TRUE), Rec(RowFull, FALSE), Rec(RowShort, TRUE),
               Rec(RowDriverOnly, TRUE), Rec(RowTeam, TRUE)}

RecordLists == UNION {[1..n -> RecordPool] : n \in 0..MaxRecords}

IdleRun ==
  [variant |-> "none", pc |-> "idle", records |-> <<>>, batchSize |-> 0,
   validateOnly |-> FALSE, aws |-> TRUE, read |-> 0, documents |-> <<>>,
   requests |-> 0, i |-> 0, issued |-> <<>>, stats |-> <<>>,
   outcome |-> "none", returned |-> None, logged |-> None]

\* part_003:426-436
ZeroStats ==
  [totalRows |-> 0, validDocuments |-> 0, invalidDocuments |-> 0,
   embeddingsGenerated |-> 0, documentsInserted |-> 0, errors |-> <<>>,
   warnings |-> <<>>]

\* part_003:614-619 the outer catch: the error is pushed and stats returned
ReturnFailed(r, message) ==
  [r EXCEPT !.pc = "done", !.outcome = "returned",
            !.stats.errors = Append(@, message),
            !.returned = Some([r.stats EXCEPT !.errors = Append(@, message)])]

ReturnStats(r) == [r EXCEPT !.pc = "done", !.outcome = "returned",
                            !.returned = Some(r.stats)]

\* config.ts validateEnvironment, run when lib/config is imported:
\* process.exit(1) when the AWS credentials are missing
ExitAtImport(r) == [r EXCEPT !.pc = "exited", !.outcome = "exited"]

\* IngestStart without the store lookup and initialize of lines 441-442
IngestStartUnchecked(records, batchSize, validateOnly, aws, initOk) ==
  /\ run.pc = "idle"
  /\ LET r == [IdleRun EXCEPT !.variant = "part_003", !.records = records,
                              !.batchSize = batchSize,
                              !.validateOnly = validateOnly, !.aws = aws,
                              !.stats = ZeroStats]
     IN  IF ~aws
           THEN run' = ExitAtImport(r) /\ UNCHANGED <<dbInstance, constructed>>
         ELSE /\ dbInstance' = getDatabase /\ constructed' = Constructed
              /\ run' = [r EXCEPT !.pc = "files"]
  /\ UNCHANGED <<store, nextId, ret>>

\* part_003:411-443.  initOk: db.initialize() succeeds.
IngestStart(records, batchSize, validateOnly, aws, initOk) ==
  /\ run.pc = "idle"
  /\ LET r == [IdleRun EXCEPT !.variant = "part_003", !.records = records,
                              !.batchSize = batchSize,
                              !.validateOnly = validateOnly, !.aws = aws,
                              !.stats = ZeroStats]
     IN  IF ~aws
           THEN run' = ExitAtImport(r) /\ UNCHANGED <<dbInstance, constructed>>
         ELSE IF getDatabase = "none"
           THEN /\ run' = ReturnFailed(r, "Ingestion failed: No database provider configured")
                /\ UNCHANGED <<dbInstance, constructed>>
         ELSE /\ dbInstance' = getDatabase /\ constructed' = Constructed
              /\ run' = IF initOk THEN [r EXCEPT !.pc = "files"]
                        ELSE ReturnFailed(r, "Ingestion failed: initialize")
  /\ UNCHANGED <<store, nextId, ret>>

\* part_003:352-363: an absent column becomes null, which z.string().optional()
\* and z.number().optional() reject
HasNullField(doc) ==
  \/ doc.track = None \/ doc.driver = None \/ doc.team = None
  \/ doc.constructor = None \/ doc.position = None \/ doc.points = None

\* part_003:346 and 372-388: the row yields a document
RowIsValid(doc) ==
  /\ Len(doc.text) >= MinTextLength
  /\ ~HasNullField(doc)
  /\ SchemaIssues([doc EXCEPT !.embedding = Emb(EmbeddingDim, 0)]) = <<>>

\* part_003:385-386 the errors pushed for the rows that fail safeParse
RowErrors(records) ==
  SelectSeq([k \in 1..Len(records) |->
               IF Len(records[k].doc.text) >= MinTextLength /\ ~RowIsValid(records[k].doc)
               THEN "Row failed validation" ELSE ""],
            LAMBDA m : m # "")

\* processCSVFile followed by the first early return only: the
\* validate-only return of lines 487-493 is left out
IngestFilesAlwaysEmbed ==
  /\ run.pc = "files" /\ run.variant = "part_003"
  /\ LET docs == SelectSeq(run.records, LAMBDA rec : RowIsValid(rec.doc))
         r == [run EXCEPT !.read = Len(run.records),
                          !.documents = docs,
                          !.stats.totalRows = Len(run.records),
                          !.stats.validDocuments = Len(docs),
                          !.stats.invalidDocuments = Len(run.records) - Len(docs),
                          !.stats.errors = @ \o RowErrors(run.records)]
     IN  run' = IF docs = <<>> THEN ReturnStats(r)
                ELSE [r EXCEPT !.pc = "embed"]
  /\ UNCHANGED <<dbInstance, constructed, store, nextId, ret>>

\* part_003:456-493 processCSVFile over the rows, then the two early returns
IngestFiles ==
  /\ run.pc = "files" /\ run.variant = "part_003"
  /\ LET docs == SelectSeq(run.records, LAMBDA rec : RowIsValid(rec.doc))
         r == [run EXCEPT !.read = Len(run.records),
                          !.documents = docs,
                          !.stats.totalRows = Len(run.records),
                          !.stats.validDocuments = Len(docs),
                          !.stats.invalidDocuments = Len(run.records) - Len(docs),
                          !.stats.errors = @ \o RowErrors(run.records)]
     IN  run' = IF docs = <<>> \/ run.validateOnly THEN ReturnStats(r)
                ELSE [r EXCEPT !.pc = "embed"]
  /\ UNCHANGED <<dbInstance, constructed, store, nextId, ret>>

\* part_003:496-531: generateBatchEmbeddings returns the embeddings of the
\* texts whose call succeeded, in order; document i gets embedding i
IngestEmbed ==
  /\ run.pc = "embed"
  /\ LET n == Len(run.documents)
         results == SelectSeq([k \in 1..n |-> [text |-> run.documents[k].doc.text,
                                                ok |-> run.documents[k].embedOk]],
                              LAMBDA x : x.ok)
         m == Len(results)
         paired == [k \in 1..m |->
                      [run.documents[k].doc EXCEPT !.embedding = EmbeddingOf(results[k].text)]]
     IN  run' = [run EXCEPT !.requests = n,
                            !.documents = paired,
                            !.stats.embeddingsGenerated = m,
                            !.stats.warnings =
                               IF m # n THEN Append(@, "Embedding count mismatch") ELSE @,
                            !.i = 0,
                            !.pc = IF m = 0 THEN "finish" ELSE "insert"]
  /\ UNCHANGED <<dbInstance, constructed, store, nextId, ret>>

\* one insert call of a batch loop, recorded in the order of issue
Issued(first, size, ok) == [first |-> first, size |-> size, ok |-> ok]

\* an insert loop that counts a batch before its insert call has returned
IngestInsertBatchCountsFirst(writeOk) ==
  /\ run.pc = "insert" /\ run.variant = "part_003"
  /\ LET insertBatchSize == IF run.batchSize <= InsertBatchCap THEN run.batchSize
                            ELSE InsertBatchCap
         last == IF run.i + insertBatchSize <= Len(run.documents)
                 THEN run.i + insertBatchSize ELSE Len(run.documents)
         b == SubSeq(run.documents, run.i + 1, last)
     IN  /\ Insert(b, writeOk)
         /\ run' = [run EXCEPT
              !.issued = Append(@, Issued(run.i, Len(b), ret'.outcome = "returned")),
              !.stats.documentsInserted = @ + Len(b),
              !.stats.errors =
                 IF ret'.outcome = "returned" THEN @
                 ELSE Append(@, "Batch insertion failed"),
              !.i = run.i + insertBatchSize,
              !.pc = IF run.i + insertBatchSize < Len(run.documents)
                     THEN "insert" ELSE "finish"]

\* part_003:537-560: one iteration of the insert loop
IngestInsertBatch(writeOk) ==
  /\ run.pc = "insert" /\ run.variant = "part_003"
  /\ LET insertBatchSize == IF run.batchSize <= InsertBatchCap THEN run.batchSize
                            ELSE InsertBatchCap
         last == IF run.i + insertBatchSize <= Len(run.documents)
                 THEN run.i + insertBatchSize ELSE Len(run.documents)
         b == SubSeq(run.documents, run.i + 1, last)
     IN  /\ Insert(b, writeOk)
         /\ run' = [run EXCEPT
              !.issued = Append(@, Issued(run.i, Len(b), ret'.outcome = "returned")),
              !.stats.documentsInserted =
                 IF ret'.outcome = "returned" THEN @ + Len(b) ELSE @,
              !.stats.errors =
                 IF ret'.outcome = "returned" THEN @
                 ELSE Append(@, "Batch insertion failed"),
              !.i = run.i + insertBatchSize,
              !.pc = IF run.i + insertBatchSize < Len(run.documents)
                     THEN "insert" ELSE "finish"]

\* part_003:562-613: the summary and the log file; writeFileSync may throw
IngestFinish(logOk) ==
  /\ run.pc = "finish" /\ run.variant = "part_003"
  /\ run' = IF logOk THEN ReturnStats(run)
            ELSE ReturnFailed(run, "Ingestion failed: log file")
  /\ UNCHANGED <<dbInstance, constructed, store, nextId, ret>>

\* guaranteed-f1.ts:9-26; lib/openai imports lib/config
SimpleStart(records, aws) ==
  /\ run.pc = "idle"
  /\ LET r == [IdleRun EXCEPT !.variant = "guaranteed-f1", !.records = records,
                              !.batchSize = UploadBatchSize, !.aws = aws]
     IN  run' = IF aws THEN [r EXCEPT !.pc = "files"] ELSE ExitAtImport(r)
  /\ UNCHANGED <<dbInstance, constructed, store, nextId, ret>>

\* guaranteed-f1.ts:49-55 and db.ts:479-492 uploadData: the legacy document
\* as an F1Document
SimpleDocument(rec) ==
  Doc(rec.doc.text, EmbeddingOf(rec.doc.text), rec.doc.source, "f1_data",
      rec.doc.season, None, None, None, None)

\* guaranteed-f1.ts:28-113: the rows are read, a text over 20 characters is
\* embedded, and a row whose embedding call throws is dropped
SimpleFiles ==
  /\ run.pc = "files" /\ run.variant = "guaranteed-f1"
  /\ LET long == SelectSeq(run.records,
                           LAMBDA rec : Len(rec.doc.text) > SimpleMinTextLength)
         kept == SelectSeq(long, LAMBDA rec : rec.embedOk)
         documents == [k \in 1..Len(kept) |-> SimpleDocument(kept[k])]
     IN  run' = [run EXCEPT !.read = Len(run.records),
                            !.requests = Len(long),
                            !.documents = documents,
                            !.i = 0,
                            !.pc = IF documents = <<>> THEN "done" ELSE "insert",
                            !.outcome = IF documents = <<>> THEN "returned" ELSE @]
  /\ UNCHANGED <<dbInstance, constructed, store, nextId, ret>>

\* guaranteed-f1.ts:82-91: one iteration of the upload loop
SimpleUpload(writeOk) ==
  /\ run.pc = "insert" /\ run.variant = "guaranteed-f1"
  /\ LET last == IF run.i + UploadBatchSize <= Len(run.documents)
                 THEN run.i + UploadBatchSize ELSE Len(run.documents)
         b == SubSeq(run.documents, run.i + 1, last)
     IN  /\ Insert(b, writeOk)
         /\ run' = [run EXCEPT
              !.issued = Append(@, Issued(run.i, Len(b), ret'.outcome = "returned")),
              !.i = run.i + UploadBatchSize,
              !.pc = IF run.i + UploadBatchSize < Len(run.documents)
                     THEN "insert" ELSE "finish"]

\* guaranteed-f1.ts:93-117: "SUCCESS! Uploaded ${documents.length} F1
\* documents" and the backup; the function returns nothing
SimpleFinish ==
  /\ run.pc = "finish" /\ run.variant = "guaranteed-f1"
  /\ run' = [run EXCEPT !.pc = "done", !.outcome = "returned",
                        !.logged = Some([uploaded |-> Len(run.documents)])]
  /\ UNCHANGED <<dbInstance, constructed, store, nextId, ret>>

\* json-ingest.ts:526-534
ZeroJsonStats == [totalRecords |-> 0, successfulRecords |-> 0, failedRecords |-> 0]

\* json-ingest.ts:13-16 createClient throws at import without SUPABASE_URL;
\* 501-564 and 412-419: validateOnly counts every record as successful
JsonStart(records, validateOnly, aws) ==
  /\ run.pc = "idle"
  /\ LET r == [IdleRun EXCEPT !.variant = "json-ingest", !.records = records,
                              !.validateOnly = validateOnly, !.aws = aws,
                              !.stats = ZeroJsonStats]
     IN  run' = IF ~cfg.supabase THEN ExitAtImport(r)
                ELSE IF validateOnly /\ records # <<>>
                  THEN [r EXCEPT !.read = Len(records), !.pc = "finish",
                                 !.stats.totalRecords = Len(records),
                                 !.stats.successfulRecords = Len(records)]
                ELSE [r EXCEPT !.read = Len(records),
                               !.stats.totalRecords = Len(records),
                               !.pc = IF records = <<>> THEN "finish" ELSE "records"]
  /\ UNCHANGED <<dbInstance, constructed, store, nextId, ret>>

\* json-ingest.ts:432-489: one record; the embedding call throws without
\* credentials; the row goes to the table through the script's own client
JsonRecord(insertOk) ==
  /\ run.pc = "records"
  /\ LET rec == run.records[run.i + 1]
         embedded == rec.embedOk /\ run.aws
         ok == embedded /\ insertOk
         document == [rec.doc EXCEPT !.embedding = EmbeddingOf(rec.doc.text)]
     IN  /\ ok => nextId <= MaxDocs
         /\ store' = IF ok THEN Append(store, SupabaseRow(document, nextId)) ELSE store
         /\ nextId' = IF ok THEN nextId + 1 ELSE nextId
         /\ run' = [run EXCEPT
              !.requests = @ + 1,
              !.issued = IF embedded THEN Append(@, Issued(run.i, 1, insertOk)) ELSE @,
              !.stats.successfulRecords = IF ok THEN @ + 1 ELSE @,
              !.stats.failedRecords = IF ok THEN @ ELSE @ + 1,
              !.i = run.i + 1,
              !.pc = IF run.i + 1 < Len(run.records) THEN "records" ELSE "finish"]
  /\ UNCHANGED <<dbInstance, constructed, ret>>

\* json-ingest.ts:566-604: the statistics are printed; Promise<void>
JsonFinish ==
  /\ run.pc = "finish" /\ run.variant = "json-ingest"
  /\ run' = [run EXCEPT !.pc = "done", !.outcome = "returned",
                        !.logged = Some(run.stats)]
  /\ UNCHANGED <<dbInstance, constructed, store, nextId, ret>>

-----------------------------------------------------------------------------
(* Descriptive text.  A row has the columns of the data files, an empty     *)
(* string where the file has no value; a sentence is the sequence of the    *)
(* pieces of its template literal: the literal parts and the `${...}`       *)
(* values.  Of the categories the drivers, race_results and sprint cases    *)
(* and the default case are modelled; teams, qualifying and calendar are    *)
(* built the same way.                                                      *)

Str_DNF == <<"D", "N", "F">>
Str_DSQ == <<"D", "S", "Q">>
Str_DNS == <<"D", "N", "S">>
Str_dnf == <<"d", "n", "f">>
Str_Yes == <<"Y", "e", "s">>
Str_NA == <<"N", "/", "A">>

Lit(t) == [lit |-> t, val |-> <<>>]
Val(v) == [lit |-> "", val |-> v]

\* String.prototype.toUpperCase on the letters of the position column
Upper(c) ==
  CASE c = "d" -> "D"
    [] c = "n" -> "N"
    [] c = "f" -> "F"
    [] c = "s" -> "S"
    [] c = "q" -> "Q"
    [] OTHER -> c

RECURSIVE UpperStr(_)
UpperStr(s) == IF s = <<>> THEN <<>> ELSE <<Upper(Head(s))>> \o UpperStr(Tail(s))

DigitValue(c) == CHOOSE n \in 0..9 : ToString(n) = c

RECURSIVE ParseDigits(_, _)
ParseDigits(s, acc) ==
  IF s = <<>> \/ Head(s) \notin Digits
  THEN acc
  ELSE ParseDigits(Tail(s), acc * 10 + DigitValue(Head(s)))

\* parseInt / parseFloat of an unsigned string without a fraction: the
\* value of its leading digits, <<>> (NaN) when it has none
parseInt(s) ==
  IF s # <<>> /\ Head(s) \in Digits THEN Some(ParseDigits(s, 0)) ELSE None

RECURSIVE Decimal(_)
Decimal(n) ==
  IF n < 10 THEN <<ToString(n)>> ELSE Decimal(n \div 10) \o <<ToString(n % 10)>>

\* `${n}` of a number
Num(n) == IF n = None THEN Lit("NaN") ELSE Val(Decimal(n[1]))

\* n > 0 (false on NaN)
Positive(n) == n # None /\ n[1] > 0

\* a || b on strings
Or(a, b) == IF a # <<>> THEN a ELSE b

\* `${v || "default"}`
Field(v, default) == IF v # <<>> THEN Val(v) ELSE Lit(default)

\* every comparison with NaN is false
getOrdinalSuffix(num) ==
  IF num = None THEN "th"
  ELSE IF num[1] % 10 = 1 /\ num[1] % 100 # 11 THEN "st"
  ELSE IF num[1] % 10 = 2 /\ num[1] % 100 # 12 THEN "nd"
  ELSE IF num[1] % 10 = 3 /\ num[1] % 100 # 13 THEN "rd"
  ELSE "th"

Columns ==
  <<"Track", "Driver", "Team", "Position", "Points", "Laps", "Time/Retired",
    "Set Fastest Lap", "Season">>

ColumnValue(row, key) ==
  CASE key = "Track" -> row.Track
    [] key = "Driver" -> row.Driver
    [] key = "Team" -> row.Team
    [] key = "Position" -> row.Position
    [] key = "Points" -> row.Points
    [] key = "Laps" -> row.Laps
    [] key = "Time/Retired" -> row.TimeRetired
    [] key = "Set Fastest Lap" -> row.SetFastestLap
    [] key = "Season" -> row.Season

\* keys.map((key) => `${key}: ${row[key]}`).join(", ")
RECURSIVE JoinKeys(_, _)
JoinKeys(row, keys) ==
  IF keys = <<>> THEN <<>>
  ELSE <<Lit(Head(keys)), Lit(": "), Val(ColumnValue(row, Head(keys)))>>
       \o (IF Len(keys) > 1 THEN <<Lit(", ")>> ELSE <<>>)
       \o JoinKeys(row, Tail(keys))

FirstKeys(keys, n) == SubSeq(keys, 1, IF Len(keys) < n THEN Len(keys) ELSE n)

\* none of the column names contains "id" or "timestamp"
FilledKeys(row) == SelectSeq(Columns, LAMBDA key : ColumnValue(row, key) # <<>>)

-----------------------------------------------------------------------------
(* json-ingest.ts *)

createDriverDescription(driver, season) ==
  <<Field(driver.Driver, "Unknown Driver"), Lit(" is a Formula 1 driver from "),
    Lit("Unknown Country"), Lit(" racing for "),
    Field(driver.Team, "Unknown Team"), Lit(" in the "), Val(season),
    Lit(" season. He has scored "),
    Num(IF driver.Points # <<>> THEN parseInt(driver.Points) ELSE Some(0)),
    Lit(" championship points with "), Num(Some(0)),
    Lit(" podium finishes throughout his career. "),
    Field(driver.Driver, "Unknown Driver"), Lit(" has won "), Num(Some(0)),
    Lit(" world championships and has participated in "), Num(Some(0)),
    Lit(" Grand Prix races. In "), Val(season), Lit(", he represents "),
    Field(driver.Team, "Unknown Team"),
    Lit(" and continues to compete at the highest level of motorsport.")>>

createRaceResultDescription(result, season) ==
  LET position == Field(result.Position, "Unknown")
      points == IF result.Points # <<>> THEN parseInt(result.Points) ELSE Some(0)
      laps == IF result.Laps # <<>> THEN parseInt(result.Laps) ELSE Some(0)
      time == Field(result.TimeRetired, "N/A")
      fastestLap == result.SetFastestLap = Str_Yes
      positionText ==
        IF result.Position = Str_DNF THEN <<Lit("did not finish")>>
        ELSE IF result.Position = Str_DSQ THEN <<Lit("was disqualified")>>
        ELSE <<Lit("finished in position "), position>>
  IN  <<Lit("In the "), Val(season), Lit(" Formula 1 season at the "),
        Field(result.Track, "Unknown Track"), Lit(" Grand Prix, "),
        Field(result.Driver, "Unknown Driver"), Lit(" driving for "),
        Field(result.Team, "Unknown Team"), Lit(" ")>>
      \o positionText
      \o (IF Positive(points)
          THEN <<Lit(" and scored "), Num(points), Lit(" championship points")>>
          ELSE <<>>)
      \o <<Lit(". The driver completed "), Num(laps), Lit(" laps")>>
      \o (IF time # Lit("N/A") /\ time # Val(Str_NA)
          THEN <<Lit(" with a race time of "), time>>
          ELSE <<>>)
      \o (IF fastestLap THEN <<Lit(" and set the fastest lap of the race")>> ELSE <<>>)
      \o <<Lit(". This result contributes to both the driver's and constructor's championship standings for the "),
           Val(season), Lit(" season.")>>

createSprintDescription(sprint, season) ==
  LET position == Field(sprint.Position, "Unknown")
      points == IF sprint.Points # <<>> THEN parseInt(sprint.Points) ELSE Some(0)
  IN  <<Lit("In the "), Val(season), Lit(" "),
        Field(sprint.Track, "Unknown Track"), Lit(" Sprint Race, "),
        Field(sprint.Driver, "Unknown Driver"), Lit(" driving for "),
        Field(sprint.Team, "Unknown Team"), Lit(" finished in "), position,
        Lit(getOrdinalSuffix(parseInt(sprint.Position))), Lit(" position")>>
      \o (IF Positive(points)
          THEN <<Lit(" and earned "), Num(points), Lit(" sprint points")>>
          ELSE <<>>)
      \o <<Lit(". Sprint races provide additional points-scoring opportunities and can influence grid positions for the main Grand Prix race.")>>

createGenericDescription(record, category, season) ==
  <<Lit("Formula 1 "), Lit(category), Lit(" data from the "), Val(season),
    Lit(" season containing information about ")>>
  \o JoinKeys(record, FirstKeys(Columns, 3))
  \o <<Lit(". This data contributes to the comprehensive Formula 1 database for analysis and insights.")>>

\* none of the builders raises on a record, so the catch with
\* createFallbackDescription (the only use of filename) is not entered
jsonCreateDescriptiveText(record, category, season, filename) ==
  CASE category = "drivers" -> createDriverDescription(record, season)
    [] category = "race_results" -> createRaceResultDescription(record, season)
    [] category = "sprint" -> createSprintDescription(record, season)
    [] OTHER -> createGenericDescription(record, category, season)

-----------------------------------------------------------------------------
(* unnamed/part_003 with lib/schemas.ts; year is what                       *)
(* new Date().getFullYear() gives when the function runs                    *)

\* raw.Season || raw.season || new Date().getFullYear().toString()  on
\* { ...row, season }
NormalizedSeason(row, season, year) == Or(row.Season, Or(season, Decimal(year)))

\* DriverSchema.parse: <<>> when it raises
normalizeDriverData(row, season, year) ==
  LET points == parseInt(Or(row.Points, <<"0">>))
      position == parseInt(row.Position)
  IN  IF \/ row.Driver = <<>> \/ row.Team = <<>>
         \/ points = None
         \/ ~IsFourDigitYear(NormalizedSeason(row, season, year))
      THEN None
      ELSE Some([driver |-> row.Driver, team |-> row.Team,
                 constructor |-> row.Team, points |-> points,
                 position |-> IF Positive(position) THEN position ELSE None,
                 wins |-> 0, podiums |-> 0,
                 season |-> NormalizedSeason(row, season, year)])

\* RaceResultSchema.parse: <<>> when it raises
normalizeRaceResultData(row, season, year) ==
  LET posStr == UpperStr(row.Position)
      sentinel == posStr \in {Str_DNF, Str_DSQ, Str_DNS}
      parsed == parseInt(posStr)
      points == parseInt(Or(row.Points, <<"0">>))
  IN  IF \/ row.Track = <<>> \/ row.Driver = <<>> \/ row.Team = <<>>
         \/ points = None
         \/ ~IsFourDigitYear(NormalizedSeason(row, season, year))
      THEN None
      ELSE Some([race |-> row.Track, track |-> row.Track,
                 driver |-> row.Driver, team |-> row.Team,
                 sentinel |-> sentinel,
                 position |-> IF sentinel THEN posStr
                              ELSE IF Positive(parsed) THEN Decimal(parsed[1])
                              ELSE <<"1">>,
                 points |-> points, time |-> row.TimeRetired,
                 fastest_lap |-> row.SetFastestLap \in {Str_Yes, <<"Y">>},
                 season |-> NormalizedSeason(row, season, year)])

\* the catch branch of createDescriptiveText
FallbackText(row, category, season) ==
  IF FilledKeys(row) # <<>>
  THEN <<Lit("Formula 1 "), Lit(category), Lit(" data from "), Val(season), Lit(": ")>>
       \o JoinKeys(row, FirstKeys(FilledKeys(row), 3)) \o <<Lit(".")>>
  ELSE <<Lit("Formula 1 "), Lit(category), Lit(" information from the "),
         Val(season), Lit(" season.")>>

\* the season a sentence of the drivers case names: the argument
DriversSeasonNormalized(driver, season) == driver.season
DriversSeason(driver, season) == season

DriversText(row, season, year) ==
  LET parsed == normalizeDriverData(row, season, year)
      driver == parsed[1]
  IN  IF parsed = None THEN FallbackText(row, "drivers", season)
      ELSE <<Val(driver.driver), Lit(" is a Formula 1 driver"),
             Lit(" racing for "), Val(driver.team),
             Lit(" with "), Val(driver.constructor),
             Lit(" in the "), Val(DriversSeason(driver, season)),
             Lit(" season. They scored "), Num(driver.points),
             Lit(" championship points")>>
           \o (IF driver.position # None
               THEN <<Lit(" and finished "), Num(driver.position),
                      Lit(getOrdinalSuffix(driver.position)),
                      Lit(" in the drivers' championship")>>
               ELSE <<>>)
           \o <<Lit(".")>>

RaceResultsText(row, season, year) ==
  LET parsed == normalizeRaceResultData(row, season, year)
      result == parsed[1]
      positionText ==
        IF ~result.sentinel
        THEN <<Val(result.position),
               Lit(getOrdinalSuffix(parseInt(result.position))), Lit(" place")>>
        ELSE <<Val(result.position)>>
  IN  IF parsed = None THEN FallbackText(row, "race_results", season)
      ELSE <<Lit("In the "), Val(season), Lit(" Formula 1 season"),
             Lit(" at the "), Val(result.race), Lit(" ("), Val(result.track),
             Lit(")"), Lit(", "), Val(result.driver), Lit(" driving for "),
             Val(result.team), Lit(" finished in ")>>
           \o positionText
           \o (IF Positive(result.points)
               THEN <<Lit(" and scored "), Num(result.points), Lit(" points")>>
               ELSE <<>>)
           \o (IF result.fastest_lap THEN <<Lit(" with the fastest lap")>> ELSE <<>>)
           \o (IF result.time # <<>>
               THEN <<Lit(" with a time of "), Val(result.time)>>
               ELSE <<>>)
           \o <<Lit(".")>>

\* `${row.Position || row.position}` of a row without the column prints
\* "undefined"
SprintText(row, season) ==
  <<Lit("In the "), Val(season), Lit(" Formula 1 sprint race")>>
  \o (IF row.Track # <<>> THEN <<Lit(" ("), Val(row.Track), Lit(")")>> ELSE <<>>)
  \o <<Lit(", "), Field(row.Driver, "undefined")>>
  \o (IF row.Team # <<>> THEN <<Lit(" from "), Val(row.Team)>> ELSE <<>>)
  \o <<Lit(" finished in "), Field(row.Position, "undefined"),
       Lit(getOrdinalSuffix(parseInt(row.Position))), Lit(" place")>>
  \o (IF row.Points # <<>> /\ Positive(parseInt(row.Points))
      THEN <<Lit(" and scored "), Val(row.Points), Lit(" points")>>
      ELSE <<>>)
  \o <<Lit(".")>>

DefaultText(row, category, season) ==
  <<Lit("Formula 1 "), Lit(category), Lit(" data from "), Val(season), Lit(": ")>>
  \o JoinKeys(row, FirstKeys(FilledKeys(row), 4)) \o <<Lit(".")>>

\* filename is not read
createDescriptiveText(row, category, season, filename, year) ==
  CASE category = "drivers" -> DriversText(row, season, year)
    [] category = "race_results" -> RaceResultsText(row, season, year)
    [] category = "sprint" -> SprintText(row, season)
    [] OTHER -> DefaultText(row, category, season)

-----------------------------------------------------------------------------
(* Inputs of the text builders *)

PositionPool ==
  {<<>>, <<"1">>, <<"2">>, <<"3">>, <<"1", "1">>, Str_DNF, Str_DSQ, Str_DNS, Str_dnf}

TextRows ==
  [Track : {<<>>, Str_x}, Driver : {Str_Max}, Team : {<<>>, Str_RB},
   Position : PositionPool, Points : {<<>>, <<"0">>, <<"2", "5">>},
   Laps : {<<>>, <<"5">>}, TimeRetired : {<<>>, Str_x},
   SetFastestLap : {<<>>, Str_Yes}, Season : {<<>>, Str_2023}]

TextCategories == {"drivers", "race_results", "sprint", "calendar"}
TextSeasons == {Str_2024, Str_24, <<>>}
Years == {2025, 2026}

NotDescribed ==
  [fn |-> "none", row |-> <<>>, category |-> "", season |-> <<>>,
   filename |-> <<>>, year |-> 0, text |-> <<>>]

-----------------------------------------------------------------------------
(* Specifications *)

Configs == {[supabase |-> TRUE, astra |-> FALSE],
            [supabase |-> FALSE, astra |-> TRUE],
            [supabase |-> TRUE, astra |-> TRUE],
            [supabase |-> FALSE, astra |-> FALSE]}

SupabaseOnly == [supabase |-> TRUE, astra |-> FALSE]

NoFound ==
  [call |-> NoCall, rows |-> <<>>, outcome |-> "none", path |-> "none",
   results |-> <<>>, vector |-> <<>>]

\* the state when the modules are loaded
InitProcess ==
  /\ cfg \in Configs
  /\ dbInstance = "none"
  /\ constructed = 0
  /\ store = <<>>
  /\ nextId = 1
  /\ ret = [op |-> "none", docs |-> <<>>, query |-> NoQuery, provider |-> "none",
            outcome |-> "none", value |-> <<>>, warned |-> <<>>, error |-> ""]
  /\ currentRegionIndex = 0
  /\ \E env \in EnvRegions : currentRegion = InitialRegion(env)
  /\ calls = [c \in Callers |-> IdleCall]
  /\ ncalls = 0
  /\ batch = IdleBatch
  /\ found = NoFound
  /\ run = IdleRun

\* the process started on a backend whose schema has been set up
Init == InitProcess /\ schema = TRUE /\ described = NotDescribed

otherThanStore ==
  <<described, cfg, schema, currentRegionIndex, currentRegion, calls, ncalls, batch, found, run>>

DoInsert ==
  /\ \E documents \in Batches, writeOk \in BOOLEAN : Insert(documents, writeOk)
  /\ UNCHANGED otherThanStore

\* insert calls of one valid document, which populate the store for the
\* searches
DoLoad ==
  /\ \E d \in {DocMax, DocTeam} : Insert(<<d>>, TRUE)
  /\ UNCHANGED otherThanStore

DoSearch ==
  /\ \E queryData \in QueryPool, callOk \in BOOLEAN : Search(queryData, callOk)
  /\ UNCHANGED otherThanStore

DoClear ==
  /\ \E callOk \in BOOLEAN : Clear(callOk)
  /\ UNCHANGED otherThanStore

DoEmbedCall ==
  /\ \E c \in Callers : EmbedCall(c)
  /\ UNCHANGED <<described, cfg, schema, dbInstance, constructed, store, nextId, ret, batch,
               found, run>>

DoEmbedSucceed ==
  /\ \E c \in Callers : EmbedSucceed(c)
  /\ UNCHANGED <<described, cfg, schema, dbInstance, constructed, store, nextId, ret, batch,
               found, run>>

DoEmbedFail ==
  /\ \E c \in Callers : EmbedFail(c)
  /\ UNCHANGED <<described, cfg, schema, dbInstance, constructed, store, nextId, ret, batch,
               found, run>>

DoEmbedRetry ==
  /\ \E c \in Callers : EmbedRetry(c)
  /\ UNCHANGED <<described, cfg, schema, dbInstance, constructed, store, nextId, ret, batch,
               found, run>>

otherThanBatch ==
  <<described, cfg, schema, dbInstance, constructed, store, nextId, ret, currentRegionIndex, currentRegion,
    calls, ncalls, found, run>>

DoBatchStart ==
  /\ \E texts \in TextLists, batchSize \in BatchSizes : BatchStart(texts, batchSize)
  /\ UNCHANGED otherThanBatch

DoBatchIssue == BatchIssue /\ UNCHANGED otherThanBatch

DoBatchSettle ==
  /\ \E k \in 1..Len(batch.texts), ok \in BOOLEAN : BatchSettle(k, ok)
  /\ UNCHANGED otherThanBatch

DoBatchChunkDone == BatchChunkDone /\ UNCHANGED otherThanBatch

DoBatchDelayDone == BatchDelayDone /\ UNCHANGED otherThanBatch

DoRetrieve ==
  /\ \E call \in RetrieveCalls : Retrieve(call)
  /\ UNCHANGED <<described, cfg, schema, dbInstance, constructed, store, nextId, ret,
               currentRegionIndex,
                 currentRegion, calls, ncalls, batch, run>>

\* the store under insert and clear calls
InitStore == Init /\ currentRegion = InitialRegion("")
NextInsert == DoInsert \/ DoClear
Spec == InitStore /\ [][NextInsert]_vars

\* the store under single-document inserts and search calls
NextSearch == DoLoad \/ DoSearch
SpecSearch == InitStore /\ [][NextSearch]_vars

\* the store under single-document inserts, clear and getStatistics calls
DoLoadSeasons ==
  /\ \E d \in {DocMax, DocTeam, DocOld} : Insert(<<d>>, TRUE)
  /\ UNCHANGED otherThanStore

DoGetStatistics ==
  /\ \E callOk \in BOOLEAN : GetStatistics(callOk)
  /\ UNCHANGED otherThanStore

NextStatistics == DoLoadSeasons \/ DoClear \/ DoGetStatistics
SpecStatistics == InitStore /\ [][NextStatistics]_vars

\* one ingestion run of each script
otherThanRun ==
  <<described, cfg, schema, currentRegionIndex, currentRegion, calls, ncalls, batch, found>>

DoIngestStart ==
  /\ run.pc = "idle"
  /\ \E records \in RecordLists, batchSize \in {1, 2}, validateOnly \in BOOLEAN,
        aws \in BOOLEAN, initOk \in BOOLEAN :
       IngestStart(records, batchSize, validateOnly, aws, initOk)
  /\ UNCHANGED otherThanRun

DoIngestFiles == IngestFiles /\ UNCHANGED otherThanRun

DoIngestEmbed == IngestEmbed /\ UNCHANGED otherThanRun

DoIngestInsertBatch ==
  /\ \E writeOk \in BOOLEAN : IngestInsertBatch(writeOk)
  /\ UNCHANGED otherThanRun

DoIngestFinish ==
  /\ \E logOk \in BOOLEAN : IngestFinish(logOk)
  /\ UNCHANGED otherThanRun

DoSimpleStart ==
  /\ run.pc = "idle"
  /\ \E records \in RecordLists, aws \in BOOLEAN : SimpleStart(records, aws)
  /\ UNCHANGED otherThanRun

DoSimpleFiles == SimpleFiles /\ UNCHANGED otherThanRun

DoSimpleUpload ==
  /\ \E writeOk \in BOOLEAN : SimpleUpload(writeOk)
  /\ UNCHANGED otherThanRun

DoSimpleFinish == SimpleFinish /\ UNCHANGED otherThanRun

DoJsonStart ==
  /\ run.pc = "idle"
  /\ \E records \in RecordLists, validateOnly \in BOOLEAN, aws \in BOOLEAN :
       JsonStart(records, validateOnly, aws)
  /\ UNCHANGED otherThanRun

DoJsonRecord ==
  /\ \E insertOk \in BOOLEAN : JsonRecord(insertOk)
  /\ UNCHANGED otherThanRun

DoJsonFinish == JsonFinish /\ UNCHANGED otherThanRun

NextIngest ==
  \/ DoIngestStart \/ DoIngestFiles \/ DoIngestEmbed \/ DoIngestInsertBatch
  \/ DoIngestFinish
  \/ DoSimpleStart \/ DoSimpleFiles \/ DoSimpleUpload \/ DoSimpleFinish
  \/ DoJsonStart \/ DoJsonRecord \/ DoJsonFinish
SpecIngest == InitStore /\ [][NextIngest]_vars

\* the ingestion runs on a store that already holds a document
DoPreload ==
  /\ run.pc = "idle" /\ store = <<>>
  /\ \E d \in {DocMax, DocTeam} : Insert(<<d>>, TRUE)
  /\ UNCHANGED otherThanStore
NextIngestLoaded == DoPreload \/ NextIngest
SpecIngestLoaded == InitStore /\ [][NextIngestLoaded]_vars

\* generateEmbedding calls made one after the other in one process
InitFailover == Init /\ cfg = SupabaseOnly
NextFailover == DoEmbedCall \/ DoEmbedSucceed \/ DoEmbedFail \/ DoEmbedRetry
SpecFailover == InitFailover /\ [][NextFailover]_vars

\* generateEmbedding calls of concurrent requests, AWS_REGION unset
DoEmbedCallConcurrent ==
  /\ \E c \in Callers : EmbedCallConcurrent(c)
  /\ UNCHANGED <<described, cfg, schema, dbInstance, constructed, store, nextId, ret, batch,
               found, run>>

InitConcurrent == InitFailover /\ currentRegion = InitialRegion("")
NextConcurrent ==
  DoEmbedCallConcurrent \/ DoEmbedSucceed \/ DoEmbedFail \/ DoEmbedRetry
SpecConcurrent == InitConcurrent /\ [][NextConcurrent]_vars

\* generateBatchEmbeddings calls
InitBatch == Init /\ cfg = SupabaseOnly /\ currentRegion = InitialRegion("")
NextBatch ==
  DoBatchStart \/ DoBatchIssue \/ DoBatchSettle \/ DoBatchChunkDone \/ DoBatchDelayDone
SpecBatch == InitBatch /\ [][NextBatch]_vars

\* the retrieval functions over a table filled by single-document inserts
\* the table the retrieval scripts query, filled by the ingest
DoLoadRows == Len(store) < MaxRows /\ DoLoad

NextRetrieve == DoLoadRows \/ DoRetrieve
SpecRetrieve == InitBatch /\ [][NextRetrieve]_vars

\* the text builders of the two ingestion scripts on rows of the data files
otherThanDescribed ==
  <<cfg, dbInstance, constructed, schema, store, nextId, ret, currentRegionIndex,
    currentRegion, calls, ncalls, batch, found, run>>

\* the calls to describe: a row, a category and a season, and the year of
\* the clock
TextCalls ==
  [fn : {"none"}, row : TextRows, category : TextCategories,
   season : TextSeasons, filename : {Str_csv}, year : Years, text : {<<>>}]

InitText ==
  /\ InitProcess /\ schema = TRUE /\ currentRegion = InitialRegion("")
  /\ cfg = SupabaseOnly
  /\ described \in TextCalls

DoDescribeJson ==
  /\ described.fn = "none"
  /\ described' =
       [described EXCEPT
          !.fn = "json-ingest",
          !.text = jsonCreateDescriptiveText(described.row, described.category,
                                             described.season, described.filename)]
  /\ UNCHANGED otherThanDescribed

DoDescribe ==
  /\ described.fn = "none"
  /\ described' =
       [described EXCEPT
          !.fn = "part_003",
          !.text = createDescriptiveText(described.row, described.category,
                                         described.season, described.filename,
                                         described.year)]
  /\ UNCHANGED otherThanDescribed

NextText == DoDescribeJson \/ DoDescribe
SpecText == InitText /\ [][NextText]_vars

\* the facade over a store filled by ingestion runs, with more documents
\* than a page of getByFilters or than the find of getStatistics returns
StoreSizes == {FilterMaxLimit + 1, AstraStatsLimit + 1}

\* drivers and teams documents in turn
IngestedDocuments(n) == [i \in 1..n |-> IF i % 2 = 1 THEN DocMax ELSE DocTeam]

\* part_003:537-560 the insert loop of a run, every batch stored
DoIngestAll ==
  /\ store = <<>> /\ nextId = 1
  /\ getDatabase # "none"
  /\ \E n \in StoreSizes :
       /\ store' = RowsOf(getDatabase, IngestedDocuments(n), 1)
       /\ nextId' = n + 1
  /\ dbInstance' = getDatabase /\ constructed' = Constructed
  /\ ret' = Ret("insert", <<>>, NoQuery, Outcome("returned", <<>>, <<>>, ""))
  /\ UNCHANGED otherThanStore

LimitPool ==
  {None, Some(0), Some(1), Some(FilterMaxLimit), Some(FilterMaxLimit + 1),
   Some(FilterMaxLimit + FilterDefaultLimit)}

DoGetByFilters ==
  /\ \E f \in {NoFilters, DriversOnly}, l \in LimitPool, callOk \in BOOLEAN :
       GetByFilters(f, l, callOk)
  /\ UNCHANGED otherThanStore

NextLargeStore == DoIngestAll \/ DoGetByFilters \/ DoGetStatistics \/ DoClear
SpecLargeStore == InitStore /\ [][NextLargeStore]_vars


\* the facade on a backend whose schema may be missing: a call succeeds
\* only when the table / collection is there
otherThanFacade ==
  <<described, cfg, currentRegionIndex, currentRegion, calls, ncalls, batch, found, run>>

DoInitialize ==
  /\ \E result \in {"failed", "ok", "42P01", "created", "already exists"} :
       Initialize(result)
  /\ UNCHANGED otherThanFacade

DoSetupSchema == SetupSchema /\ UNCHANGED otherThanFacade

DoHealthCheck ==
  /\ \E probe \in {"failed", "ok", "42P01"}, countOk \in BOOLEAN :
       HealthCheck(probe, countOk)
  /\ UNCHANGED <<schema>> /\ UNCHANGED otherThanFacade

DoDirectHealthCheck ==
  /\ \E probe \in {"failed", "ok", "42P01"}, countOk \in BOOLEAN :
       DirectHealthCheck(probe, countOk)
  /\ UNCHANGED <<schema>> /\ UNCHANGED otherThanFacade

DoFacadeInsert ==
  /\ \E d \in {DocMax, DocTeam}, writeOk \in BOOLEAN :
       (writeOk => schema) /\ Insert(<<d>>, writeOk)
  /\ UNCHANGED otherThanStore

DoFacadeSearch ==
  /\ \E queryData \in {Query(Str_Max, Emb(EmbeddingDim, 0), None, None, NoFilters)},
        callOk \in BOOLEAN :
       (callOk => schema) /\ Search(queryData, callOk)
  /\ UNCHANGED otherThanStore

DoFacadeGetByFilters ==
  /\ \E f \in {NoFilters, DriversOnly}, l \in {None, Some(1)}, callOk \in BOOLEAN :
       (callOk => schema) /\ GetByFilters(f, l, callOk)
  /\ UNCHANGED otherThanStore

DoFacadeGetStatistics ==
  /\ \E callOk \in BOOLEAN : (callOk => schema) /\ GetStatistics(callOk)
  /\ UNCHANGED otherThanStore

DoFacadeClear ==
  /\ \E callOk \in BOOLEAN : (callOk => schema) /\ Clear(callOk)
  /\ UNCHANGED otherThanStore

InitFacade ==
  /\ InitProcess /\ schema \in BOOLEAN /\ currentRegion = InitialRegion("")
  /\ described = NotDescribed
NextFacade ==
  \/ DoInitialize \/ DoSetupSchema \/ DoHealthCheck \/ DoDirectHealthCheck
  \/ DoFacadeInsert \/ DoFacadeSearch \/ DoFacadeGetByFilters
  \/ DoFacadeGetStatistics \/ DoFacadeClear
SpecFacade == InitFacade /\ [][NextFacade]_vars

-----------------------------------------------------------------------------
(* Properties of insert *)

FailsValidation(doc) == SchemaIssues(doc) # <<>>

NumInvalid(documents) ==
  Cardinality({i \in 1..Len(documents) : FailsValidation(documents[i])})

\* the last n stored documents
StoredTail(n) == SubSeq(store, Len(store) - n + 1, Len(store))

\* the last operation was an insert call that reached the provider
InsertCalled == ret.op = "insert" /\ ret.provider # "none"

BackendWriteFailed == ret.error = "Failed to insert documents"

SameContent(row, doc) ==
  /\ row.text = doc.text
  /\ row.embedding = doc.embedding
  /\ row.source = doc.source
  /\ row.category = doc.category
  /\ row.season = doc.season

\* C1: every stored document has an embedding of exactly EmbeddingDim
\* elements, and every document submitted to insert with an embedding of
\* another length is reported as a validation failure of its index and is
\* not among the documents the call stored.
C1_EmbeddingLength ==
  /\ \A i \in 1..Len(store) : store[i].embedding.len = EmbeddingDim
  /\ InsertCalled =>
       \A i \in 1..Len(ret.docs) :
         ret.docs[i].embedding.len # EmbeddingDim =>
           \E k \in 1..Len(ret.warned) : ret.warned[k].index = i - 1

\* C1 witness: an insert call that held a 3-element embedding has returned
\* after storing a document.
C1_Witness ==
  /\ InsertCalled
  /\ \E i \in 1..Len(ret.docs) : ret.docs[i].embedding.len = 3
  /\ \E i \in 1..Len(store) : store[i].embedding.len = EmbeddingDim
  /\ ret.outcome = "returned"

-----------------------------------------------------------------------------
(* Properties of search *)

SearchReturned == ret.op = "search" /\ ret.outcome = "returned"

RowById(id) == CHOOSE r \in {store[i] : i \in 1..Len(store)} : r.id = id

\* the similarity of a stored document to the query of the last search
TrueSimilarity(row) == Similarity(row.embedding, ret.query.embedding)

Requested == DatabaseQuerySchemaParse(ret.query)

ReturnedIds == {ret.value[k].id : k \in 1..Len(ret.value)}

\* C9: no document whose similarity to the query vector is below the
\* requested threshold is in the result of search, on either backend.
C9_ThresholdExclusion ==
  SearchReturned =>
    \A k \in 1..Len(ret.value) :
      TrueSimilarity(RowById(ret.value[k].id)) >= Requested.threshold

\* C10: search returns at most limit results, in non-increasing order of
\* their similarity score, each satisfying the threshold and the filters,
\* and no document that satisfies them is left out in favour of a
\* lower-scoring one or while fewer than limit results are returned.
C10_RankingTruncation ==
  SearchReturned =>
    LET eligible == {i \in 1..Len(store) :
                       /\ TrueSimilarity(store[i]) > Requested.threshold
                       /\ MatchesFilters(store[i], Requested.filters)}
        leftOut == {i \in eligible : store[i].id \notin ReturnedIds}
    IN  /\ Len(ret.value) <= Requested.limit
        /\ \A k \in 1..(Len(ret.value) - 1) :
             ret.value[k].similarity >= ret.value[k + 1].similarity
        /\ \A k \in 1..Len(ret.value) :
             /\ TrueSimilarity(RowById(ret.value[k].id)) >= Requested.threshold
             /\ MatchesFilters(RowById(ret.value[k].id), Requested.filters)
        /\ leftOut # {} => Len(ret.value) = Requested.limit
        /\ \A i \in leftOut : \A k \in 1..Len(ret.value) :
             TrueSimilarity(store[i]) <= TrueSimilarity(RowById(ret.value[k].id))

\* thresholds a caller may pass, in percent
Thresholds == {0, 60, 90}

\* the numbers of results search may return for the query with threshold t
\* on the rows
ResultCounts(provider, rows, queryData, t) ==
  {Len(r.value) :
     r \in SearchResults(provider, rows, [queryData EXCEPT !.threshold = Some(t)], TRUE)}

\* C11: when a search returns, a search of the same rows with the same query
\* vector, limit and filters and a threshold that is not greater returns at
\* least as many results.
C11_ThresholdMonotonicity ==
  [][(ret'.op = "search" /\ ret'.outcome = "returned") =>
       \A t1 \in Thresholds :
         t1 <= DatabaseQuerySchemaParse(ret'.query).threshold =>
           \A n \in ResultCounts(ret'.provider, store, ret'.query, t1) :
             Len(ret'.value) <= n]_vars

\* C11 witness: on the relational backend a search with threshold 0.9
\* returned nothing from rows of which a search with threshold 0.5 returns
\* some.
C11_Witness ==
  /\ SearchReturned
  /\ ret.provider = "Supabase"
  /\ ret.query.threshold = Some(90)
  /\ ret.value = <<>>
  /\ \E n \in ResultCounts(ret.provider, store, ret.query, 50) : n > 0

-----------------------------------------------------------------------------
(* Properties of getStatistics *)

RECURSIVE SumValues(_)
SumValues(m) ==
  IF DOMAIN m = {} THEN 0
  ELSE LET k == CHOOSE k \in DOMAIN m : TRUE
       IN  m[k] + SumValues([j \in DOMAIN m \ {k} |-> m[j]])

StatisticsReturned == ret.op = "getStatistics" /\ ret.outcome = "returned"

\* a breakdown is a mapping whose values sum to n
SumsTo(breakdown, n) == breakdown # None /\ SumValues(breakdown[1]) = n

\* C12: the record getStatistics returns has documentsByCategory and
\* documentsBySeason mappings whose values each sum to totalDocuments, for
\* every population of the store, the empty one included.
C12_StatisticsConsistency ==
  StatisticsReturned =>
    /\ SumsTo(ret.value.documentsByCategory, ret.value.totalDocuments)
    /\ SumsTo(ret.value.documentsBySeason, ret.value.totalDocuments)

\* the statistics of a store that holds documents, and of Astra DB, are
\* consistent
StatisticsConsistentUnlessEmptyTable ==
  (StatisticsReturned /\ (ret.value.totalDocuments > 0 \/ ret.provider # "Supabase")) =>
    /\ SumsTo(ret.value.documentsByCategory, ret.value.totalDocuments)
    /\ SumsTo(ret.value.documentsBySeason, ret.value.totalDocuments)

-----------------------------------------------------------------------------
(* Properties of the failover *)

\* the regions a call sent its request to
RegionsTried(c) == {calls[c].tried[j] : j \in 1..Len(calls[c].tried)}

ListedRegions == {BEDROCK_REGIONS[k] : k \in 1..Len(BEDROCK_REGIONS)}

\* C4: a generateEmbedding call raises its terminal error only after it has
\* sent the request to every region of BEDROCK_REGIONS during that call.
C4_FailoverExhaustion ==
  \A c \in Callers :
    calls[c].outcome = "raised" => ListedRegions \subseteq RegionsTried(c)

-----------------------------------------------------------------------------
(* Properties of the batch embedding *)

FailedTexts == {k \in 1..Len(batch.texts) : batch.status[k] = "failed"}

\* the entries of the returned value that are embeddings / error records
ReturnedEmbeddings == SelectSeq(batch.returned, LAMBDA x : x.kind = "embedding")
ReturnedErrors == SelectSeq(batch.returned, LAMBDA x : x.kind = "error")

\* generateBatchEmbeddings returns exactly the embeddings of the texts
\* whose call succeeded, and its local error list has one entry per failure
BatchEmbeddingsReturned ==
  batch.pc = "done" =>
    /\ Len(ReturnedEmbeddings) = Len(batch.texts) - Cardinality(FailedTexts)
    /\ Len(batch.errors) = Cardinality(FailedTexts)
    /\ \A k \in FailedTexts :
         \E j \in 1..Len(batch.errors) : batch.errors[j].index = k - 1

\* C5: generateBatchEmbeddings over n texts of which k calls fail returns
\* n-k embeddings and returns to its caller an error list of k entries,
\* each with the index of the failing text.
C5_FailureIsolation ==
  batch.pc = "done" =>
    /\ Len(ReturnedEmbeddings) = Len(batch.texts) - Cardinality(FailedTexts)
    /\ Len(ReturnedErrors) = Cardinality(FailedTexts)
    /\ \A k \in FailedTexts :
         \E j \in 1..Len(ReturnedErrors) : ReturnedErrors[j].index = k - 1

-----------------------------------------------------------------------------
(* Properties of the retrieval *)

Retrieved == found.call.variant # "none"

\* the limit a call asks for, with the default of its function
LimitOf(call) ==
  IF call.limit # None THEN call.limit[1]
  ELSE CASE call.variant = "test-f1-queries" -> 5
         [] call.variant = "part_001" -> 5
         [] call.variant = "part_000" -> 15
         [] OTHER -> 10

\* the rows of the table the call ran on that match its query lexically
\* (text, driver or team contains it, case-insensitively) and satisfy its
\* category
LexicalMatches(call) ==
  {i \in 1..Len(found.rows) :
     /\ MatchesTextDriverTeam(found.rows[i], call.query)
     /\ CategoryFilterAdmits(call.category, found.rows[i].category)}

Min(a, b) == IF a <= b THEN a ELSE b

\* results are distinct lexical matches of the call, as many as the limit
\* allows, each with similarity 0.5
IsLexicalResult(results, call) ==
  /\ Len(results) = Min(LimitOf(call), Cardinality(LexicalMatches(call)))
  /\ \A k \in 1..Len(results) :
       /\ results[k].similarity = 50
       /\ \E i \in LexicalMatches(call) : found.rows[i].id = results[k].id
  /\ \A k, l \in 1..Len(results) : k # l => results[k].id # results[l].id

\* C6: when the rpc of the vector search fails, the retrieval function
\* returns (does not raise) the lexical matches, at most limit of them,
\* each with similarity 0.5.
C6_FallbackOnError ==
  (/\ found.call.variant \in {"test-f1-queries", "part_001", "part_000"}
   /\ found.call.embedOk /\ ~found.call.rpcOk) =>
     /\ found.outcome = "returned"
     /\ Len(found.results) <= LimitOf(found.call)
     /\ \A k \in 1..Len(found.results) : found.results[k].similarity = 50
     /\ found.call.lexOk => IsLexicalResult(found.results, found.call)

\* C6 witness: the rpc failed and two stored documents came back from the
\* lexical fallback.
C6_Witness ==
  /\ found.call.variant = "part_001"
  /\ found.call.embedOk /\ ~found.call.rpcOk /\ found.call.lexOk
  /\ Len(found.results) = 2
  /\ found.outcome = "returned"

\* C7: when the vector search succeeds with zero results, the retrieval
\* function returns the lexical matches with similarity 0.5 instead of the
\* empty vector result.
C7_FallbackOnEmpty ==
  (/\ found.call.variant \in {"test-f1-queries", "f1-analytics"}
   /\ found.call.embedOk /\ found.call.rpcOk /\ found.call.lexOk
   /\ found.vector = <<>>) =>
     IsLexicalResult(found.results, found.call)

\* C8: a retrieval call returns a list whatever fails, and the list is
\* empty when the vector search and the lexical fallback both fail.
C8_NeverRaises ==
  Retrieved =>
    /\ found.outcome = "returned"
    /\ (~found.call.rpcOk /\ ~found.call.lexOk) => found.results = <<>>
    /\ ~found.call.embedOk => found.results = <<>>

\* C8 witness: the rpc and the fallback select both failed although a
\* stored document matches the query.
C8_Witness ==
  /\ Retrieved
  /\ found.call.embedOk /\ ~found.call.rpcOk /\ ~found.call.lexOk
  /\ LexicalMatches(found.call) # {}
  /\ found.outcome = "returned"
  /\ found.results = <<>>

-----------------------------------------------------------------------------
(* Properties of the ingestion runs *)

\* the documents of the issued insert calls: all of them, or those of the
\* calls that returned
RECURSIVE IssuedSize(_, _)
IssuedSize(issued, okOnly) ==
  IF issued = <<>> THEN 0
  ELSE (IF okOnly /\ ~Head(issued).ok THEN 0 ELSE Head(issued).size)
       + IssuedSize(Tail(issued), okOnly)

FailedBatches == {k \in 1..Len(run.issued) : ~run.issued[k].ok}

BatchRunDone ==
  /\ run.variant \in {"part_003", "guaranteed-f1"}
  /\ run.pc = "done"
  /\ run.issued # <<>>

\* the number of documents the finished run gives as inserted: the returned
\* stats.documentsInserted, or the "Uploaded n documents" of the summary
CountedAsInserted ==
  IF run.variant = "part_003" THEN run.returned[1].documentsInserted
  ELSE run.logged[1].uploaded

BatchFailuresRecorded ==
  run.variant = "part_003" =>
    Cardinality(FailedBatches)
      = Len(SelectSeq(run.returned[1].errors, LAMBDA m : m = "Batch insertion failed"))

\* C13: in a finished ingestion run, the documents of a batch whose insert
\* call raised are not counted as inserted, the batch is recorded as failed,
\* and the insert call was still issued for every batch up to the last.
C13_BatchFailureIsolation ==
  BatchRunDone =>
    /\ CountedAsInserted = IssuedSize(run.issued, TRUE)
    /\ BatchFailuresRecorded
    /\ IssuedSize(run.issued, FALSE) = Len(run.documents)

\* the orchestrator of part_003 alone isolates a failed batch
BatchFailureIsolatedInOrchestrator ==
  (BatchRunDone /\ run.variant = "part_003") =>
    /\ CountedAsInserted = IssuedSize(run.issued, TRUE)
    /\ BatchFailuresRecorded
    /\ IssuedSize(run.issued, FALSE) = Len(run.documents)

\* in both scripts every batch is issued whatever failed before
EveryBatchIssued ==
  BatchRunDone => IssuedSize(run.issued, FALSE) = Len(run.documents)

\* what happened in the run, from its inputs and its insert calls
ValidRecords == SelectSeq(run.records, LAMBDA rec : RowIsValid(rec.doc))
EmbeddingFailures == Len(SelectSeq(ValidRecords, LAMBDA rec : ~rec.embedOk))
InsertFailures == IssuedSize(run.issued, FALSE) - IssuedSize(run.issued, TRUE)

\* the ProcessingStats st of part_003 give the five counts of the run; the
\* embedding and insert failures have no field and are the differences of
\* the fields, for a run that went on to the embedding stage
StatsReportCounts(st) ==
  /\ st.totalRows = run.read
  /\ st.invalidDocuments = run.read - (IF run.read = 0 THEN 0 ELSE Len(ValidRecords))
  /\ st.documentsInserted = IssuedSize(run.issued, TRUE)
  /\ run.requests > 0 =>
       /\ st.validDocuments - st.embeddingsGenerated = EmbeddingFailures
       /\ st.embeddingsGenerated - st.documentsInserted = InsertFailures

\* C14: an ingestion run that ends returns its statistics, whatever records
\* failed validation, embedding or insertion, and the statistics give the
\* counts of attempted, succeeded, validation-failed, embedding-failed and
\* insert-failed items.
C14_RunCompletes ==
  (run.variant \in {"part_003", "json-ingest"} /\ run.pc = "done") =>
    /\ run.outcome = "returned"
    /\ run.returned # None
    /\ StatsReportCounts(run.returned[1])

\* the orchestrator of part_003 returns statistics with the counts
OrchestratorReturnsStats ==
  (run.variant = "part_003" /\ run.pc = "done") =>
    /\ run.outcome = "returned"
    /\ run.returned # None
    /\ StatsReportCounts(run.returned[1])

\* ingestJSONData ends without raising and prints three counts
JsonRunLogsTotals ==
  (run.variant = "json-ingest" /\ run.pc = "done") =>
    /\ run.outcome = "returned"
    /\ run.returned = None
    /\ run.logged[1].totalRecords = Len(run.records)
    /\ run.logged[1].successfulRecords + run.logged[1].failedRecords
         = Len(run.records)

\* the configuration the run started with lacks the credentials of the
\* embedding service, or those of every backend
ConfigurationMissing ==
  ~run.aws \/ (~isSupabaseConfigured /\ ~isAstraConfigured)

\* C15: when the credentials of the embedding service or of the backend are
\* missing, the orchestrator stops at startup: no record is read, no
\* embedding request is sent and no insert is attempted.
C15_ConfigFailFast ==
  (run.variant = "part_003" /\ ConfigurationMissing) =>
    /\ run.pc \in {"done", "exited"}
    /\ run.read = 0
    /\ run.documents = <<>>
    /\ run.requests = 0
    /\ run.issued = <<>>
    /\ store = <<>>

C15_Witness ==
  /\ run.variant = "part_003"
  /\ run.aws
  /\ ~isSupabaseConfigured /\ ~isAstraConfigured
  /\ Len(run.records) > 0
  /\ run.pc = "done"
  /\ run.read = 0 /\ run.requests = 0 /\ run.issued = <<>>
  /\ Len(run.returned[1].errors) = 1

\* without the credentials of the embedding service the process ends when
\* lib/config is loaded
ExitsWithoutEmbeddingCredentials ==
  (run.variant \in {"part_003", "guaranteed-f1"} /\ ~run.aws) =>
    run.pc = "exited" /\ run.read = 0

-----------------------------------------------------------------------------
(* Properties of the facade: healthCheck, initialize, backend selection *)

HealthCheckCalled == ret.op \in {"healthCheck", "supabase.healthCheck"}

\* the value is one status record with the four facts and a status
IsHealthRecord(value) ==
  /\ Len(value) = 1
  /\ value[1].status \in {"healthy", "unhealthy"}
  /\ {"connectionWorking", "tablesExist", "documentsCount"}
       \subseteq DOMAIN value[1].details
  /\ \/ "configured" \in DOMAIN value[1].details
     \/ "supabaseConfigured" \in DOMAIN value[1].details
  /\ value[1].details.connectionWorking \in BOOLEAN
  /\ value[1].details.tablesExist \in BOOLEAN
  /\ value[1].details.documentsCount \in 0..MaxDocs

\* C16: healthCheck never raises: on either backend and through the facade,
\* configured or not, reachable or not, with or without the schema, it
\* returns a status record giving configured, reachable, schema-exists and
\* the document count.
C16_HealthCheckNeverRaises ==
  HealthCheckCalled => ret.outcome = "returned" /\ IsHealthRecord(ret.value)

\* healthCheck returns its record whenever a provider could be selected,
\* and when supabase.ts's healthCheck is called directly
HealthCheckReturnsOnProvider ==
  (HealthCheckCalled /\ ret.provider # "none") =>
    ret.outcome = "returned" /\ IsHealthRecord(ret.value)

\* the facade has no provider to ask when no backend is configured
HealthCheckRaisesUnconfigured ==
  (ret.op = "healthCheck" /\ ~isSupabaseConfigured /\ ~isAstraConfigured) =>
    ret.outcome = "raised" /\ ret.error = NotConfigured.error

\* a record says healthy exactly when it says reachable and schema-exists,
\* and says schema-exists only when the schema is there
HealthRecordCoherent ==
  (HealthCheckCalled /\ ret.outcome = "returned") =>
    /\ ret.value[1].status = "healthy"
         <=> (ret.value[1].details.connectionWorking
              /\ ret.value[1].details.tablesExist)
    /\ ret.value[1].details.tablesExist => schema

\* a backend that answers "no such table" is reported as not reachable
MissingSchemaReportedUnreachable ==
  ~schema =>
    /\ ~supabaseHealthCheck(store, "42P01", TRUE).details.connectionWorking
    /\ ~AstraHealthCheck(store, "42P01").details.connectionWorking

InitializeReturned == ret.op = "initialize" /\ ret.outcome = "returned"

\* C17: initialize is idempotent: with the schema in place a call fails only
\* for a request that got no answer, never because the table, collection
\* or index is already there, and a call that follows a call that returned
\* changes neither the schema nor the stored documents.
C17_InitializeIdempotent ==
  [][DoInitialize =>
       /\ store' = store /\ nextId' = nextId
       /\ (schema => schema')
       /\ (schema /\ ret'.outcome = "raised") =>
            ret'.error \in {"request failed", NotConfigured.error}
       /\ (InitializeReturned /\ ret'.outcome = "returned") => schema' = schema]_vars

\* initialize has returned on a backend that holds documents and the schema
C17_Witness ==
  /\ InitializeReturned
  /\ ret.provider = "DataStax Astra DB"
  /\ schema
  /\ Len(store) > 0

\* C18: whenever initialize returns without raising, on either backend, the
\* table or collection and its similarity index exist.
C18_InitializeEnsuresSchema ==
  [][(DoInitialize /\ ret'.outcome = "returned") => schema']_vars

\* AstraDBProvider.initialize returns only with the collection in place
AstraInitializeEnsuresSchema ==
  [][(DoInitialize /\ ret'.outcome = "returned"
        /\ ret'.provider = "DataStax Astra DB") => schema']_vars

\* initializeDatabase raises when the backend answers that the table is
\* missing
SupabaseInitializeRaisesOnMissingTable ==
  (~schema /\ isSupabaseConfigured) =>
    InitializeOutcome("Supabase", "42P01").outcome = "raised"

\* ... and returns when the request got no answer
SupabaseInitializeIgnoresOtherErrors ==
  isSupabaseConfigured =>
    InitializeOutcome("Supabase", "failed").outcome = "returned"

FacadeOps == {"initialize", "insert", "search", "getByFilters",
              "getStatistics", "clear", "healthCheck"}

\* C19: the backend is selected once, from the configuration, when the store
\* object is first obtained: one Database object is ever constructed, it
\* keeps its provider, and every initialize, insert, search, getByFilters,
\* getStatistics, clear and healthCheck call is served by that provider.
C19_BackendFixed ==
  [][/\ constructed' <= 1
     /\ dbInstance # "none" => dbInstance' = dbInstance
     /\ dbInstance' = "Supabase" => cfg.supabase
     /\ dbInstance' = "DataStax Astra DB" => cfg.astra
     /\ ret'.op \in FacadeOps => ret'.provider = dbInstance']_vars

\* the facade has served several calls on the backend it selected first
C19_Witness ==
  /\ cfg.supabase /\ cfg.astra
  /\ dbInstance = "Supabase"
  /\ constructed = 1
  /\ ret.op = "getByFilters" /\ ret.provider = "Supabase"
  /\ Len(store) > 0

-----------------------------------------------------------------------------
(* Properties of the scheduling of generateBatchEmbeddings *)

CallsInFlight == {k \in 1..Len(batch.texts) : batch.status[k] = "inflight"}

CallsStarted == {k \in 1..Len(batch.texts) : batch.status[k] # "pending"}

CallsFinished == {k \in 1..Len(batch.texts) : batch.status[k] \in {"ok", "failed"}}

\* C20: at most batchSize embedding calls are in flight; no call of a later
\* chunk is issued before every call of the chunks before it has finished
\* and the delay between them has elapsed; no delay follows the last chunk.
C20_BatchScheduling ==
  /\ Cardinality(CallsInFlight) <= batch.batchSize
  /\ \A k \in CallsStarted : k <= batch.i + batch.batchSize
  /\ \A k \in 1..batch.i : k \in CallsFinished
  /\ batch.pc = "delay" =>
       /\ \A k \in 1..(batch.i + batch.batchSize) : k \in CallsFinished
       /\ batch.i + batch.batchSize < Len(batch.texts)
  /\ batch.pc = "done" => CallsFinished = 1..Len(batch.texts)

\* the second chunk runs after a first chunk that had two calls in flight
\* had finished
C20_Witness ==
  /\ batch.batchSize = 2
  /\ batch.pc = "chunk"
  /\ batch.i = 2
  /\ CallsInFlight = {3}
  /\ CallsFinished = {1, 2}

\* two calls of one chunk are in flight together
TwoCallsInFlight == Cardinality(CallsInFlight) = 2

-----------------------------------------------------------------------------
(* Properties of validate-only runs *)

\* C21: with the validate-only option set, an ingestion run sends no
\* embedding request and performs no insert or delete: every step of the run
\* leaves the stored documents as they were.
C21_ValidateOnlyChangesNothing ==
  [][run'.validateOnly =>
       /\ store' = store /\ nextId' = nextId
       /\ run'.requests = 0
       /\ run'.issued = <<>>]_vars

\* a validate-only run over valid rows has ended on a store with a document
C21_Witness ==
  /\ run.variant = "part_003" /\ run.validateOnly
  /\ run.pc = "done"
  /\ run.returned # None
  /\ run.returned[1].validDocuments > 0
  /\ Len(store) = 1

\* ingestJSONData with the option reads the records and ends
JsonValidateOnlyEnds ==
  (run.variant = "json-ingest" /\ run.validateOnly /\ run.pc = "done") =>
    run.requests = 0 /\ run.logged[1].successfulRecords = Len(run.records)

-----------------------------------------------------------------------------
(* Properties of the normalization of rows *)

DriverOnlyRecords ==
  SelectSeq(run.records, LAMBDA rec : rec.doc = RowDriverOnly)

\* C22: a drivers record that carries only Driver, Team, Points and Season,
\* normalized under category "drivers" and season "2024", yields a draft
\* that passes document validation and is counted as valid.
C22_DriverRecordValid ==
  (run.variant = "part_003" /\ run.read > 0 /\ DriverOnlyRecords # <<>>) =>
    /\ RowIsValid(RowDriverOnly)
    /\ run.stats.validDocuments >= Len(DriverOnlyRecords)
    /\ run.stats.invalidDocuments <= Len(run.records) - Len(DriverOnlyRecords)

\* the draft of such a record has category "drivers", season "2024" and
\* nothing the schema objects to but its null columns
DriverOnlyDraftRejectedForNulls ==
  /\ RowDriverOnly.category = "drivers" /\ RowDriverOnly.season = Str_2024
  /\ SchemaIssues([RowDriverOnly EXCEPT !.embedding = Emb(EmbeddingDim, 0)]) = <<>>
  /\ HasNullField(RowDriverOnly)
  /\ (run.variant = "part_003" /\ run.read > 0) =>
       run.stats.invalidDocuments >= Len(DriverOnlyRecords)

-----------------------------------------------------------------------------
(* Properties of the descriptive text *)

Sentinels == {Str_DNF, Str_DSQ, Str_DNS}

OutcomePhrase(sentinel) ==
  CASE sentinel = Str_DNF -> "did not finish"
    [] sentinel = Str_DSQ -> "was disqualified"
    [] sentinel = Str_DNS -> "did not start"

HasPiece(text, piece) == \E i \in 1..Len(text) : text[i] = piece

\* "finished in position <sentinel>", "finished in <sentinel>"
SentinelAsPosition(text, sentinel) ==
  \E i \in 1..(Len(text) - 1) :
    /\ text[i].lit \in {"finished in position ", " finished in "}
    /\ text[i + 1] = Val(sentinel)

SentinelDescribed ==
  /\ described.fn # "none"
  /\ described.category \in {"race_results", "sprint"}
  /\ described.row.Position \in Sentinels

\* C23: for a race or sprint record whose position is one of the sentinels
\* DNF, DSQ, DNS the sentence contains the outcome phrase of that sentinel
\* and never the position phrase with the sentinel in the number's place.
C23_SentinelsRenderedAsOutcomes ==
  SentinelDescribed =>
    /\ HasPiece(described.text, Lit(OutcomePhrase(described.row.Position)))
    /\ ~SentinelAsPosition(described.text, described.row.Position)

\* what createRaceResultDescription of json-ingest.ts does render
JsonRaceRendersDnfAndDsq ==
  (/\ described.fn = "json-ingest" /\ described.category = "race_results"
   /\ described.row.Position \in {Str_DNF, Str_DSQ}) =>
    /\ HasPiece(described.text, Lit(OutcomePhrase(described.row.Position)))
    /\ ~SentinelAsPosition(described.text, described.row.Position)

\* and what the builders do with a sentinel otherwise, in every sentence
\* that is not the fallback text
JsonRaceOutcome ==
  /\ described.fn = "json-ingest" /\ described.category = "race_results"
  /\ described.row.Position \in {Str_DNF, Str_DSQ}

SentinelPrintedAsPosition ==
  (/\ SentinelDescribed /\ ~JsonRaceOutcome
   /\ \/ HasPiece(described.text, Lit(" finished in "))
      \/ HasPiece(described.text, Lit("finished in position "))) =>
    SentinelAsPosition(described.text, described.row.Position)

\* C27: the sentence of a record is a function of the record, the category,
\* the season and the source alone: whatever the clock reads when the
\* builder runs, it returns the same sentence.
C27_TextIsDeterministic ==
  described.fn # "none" =>
    \A year \in Years :
      described.text =
        IF described.fn = "json-ingest"
        THEN jsonCreateDescriptiveText(described.row, described.category,
                                       described.season, described.filename)
        ELSE createDescriptiveText(described.row, described.category,
                                   described.season, described.filename, year)

\* a drivers row without a season, normalized under an empty season: the
\* normalizer reads the clock
C27_Witness ==
  /\ described.fn = "part_003" /\ described.category = "drivers"
  /\ described.row.Season = <<>> /\ described.season = <<>>
  /\ normalizeDriverData(described.row, described.season, described.year) # None
  /\ normalizeDriverData(described.row, described.season, described.year)[1].season
       = Decimal(described.year)
  /\ HasPiece(described.text, Lit(" is a Formula 1 driver"))

-----------------------------------------------------------------------------
(* Properties of the document lifecycle *)

\* every stored document is still stored, unchanged and in its place
StoredKept ==
  /\ Len(store') >= Len(store)
  /\ \A i \in 1..Len(store) : store'[i] = store[i]

ClearReturned == ret'.op = "clear" /\ ret'.outcome = "returned" /\ DoFacadeClear

\* C24: a stored document is never modified or removed by insert, search,
\* getByFilters, getStatistics, healthCheck or initialize; only clear removes
\* documents, and it removes all of them: after clear has returned the store
\* holds no documents.
C24_DocumentLifecycle ==
  [][/\ ~StoredKept => ClearReturned
     /\ ClearReturned => store' = <<>>]_vars

\* clear has returned on a store that held documents
C24_Witness ==
  /\ ret.op = "clear" /\ ret.outcome = "returned"
  /\ store = <<>> /\ nextId > 1

\* a clear that raises leaves the documents
RaisedClearKeepsDocuments ==
  [][(DoFacadeClear /\ ret'.outcome = "raised") => store' = store]_vars

-----------------------------------------------------------------------------
(* Properties of getStatistics and getByFilters on a large store *)

AstraStatisticsReturned ==
  /\ ret.op = "getStatistics" /\ ret.outcome = "returned"
  /\ ret.provider = "DataStax Astra DB"

\* C25: on the Astra backend getStatistics reads every stored document:
\* totalDocuments is the number of documents stored, whatever the size of
\* the store.
C25_AstraStatisticsCoverStore ==
  AstraStatisticsReturned => ret.value.totalDocuments = Len(store)

\* what it reads is the first AstraStatsLimit documents
AstraStatisticsCoverFirstDocuments ==
  AstraStatisticsReturned =>
    ret.value.totalDocuments =
      IF Len(store) <= AstraStatsLimit THEN Len(store) ELSE AstraStatsLimit

GetByFiltersReturned == ret.op = "getByFilters" /\ ret.outcome = "returned"

\* C26: whatever limit is asked for (none, zero, one within the range, one
\* above the maximum), getByFilters returns at most FilterMaxLimit documents,
\* and each of them has the values of all the filters given.
C26_GetByFiltersPageCap ==
  GetByFiltersReturned =>
    /\ Len(ret.value) <= FilterMaxLimit
    /\ \A i \in 1..Len(ret.value) : MatchesFilters(ret.value[i], ret.query.filters)

\* more than a page was asked of a store that holds more than a page of
\* matching documents
C26_Witness ==
  /\ GetByFiltersReturned
  /\ ret.query.limit = Some(FilterMaxLimit + FilterDefaultLimit)
  /\ ret.query.filters = DriversOnly
  /\ Len(ret.value) = FilterMaxLimit
  /\ Len(SelectSeq(store, LAMBDA row : MatchesFilters(row, DriversOnly)))
       > FilterMaxLimit

\* the page is as long as asked, within the cap and the matching documents
GetByFiltersPageLength ==
  GetByFiltersReturned =>
    \E matching \in
         {Len(SelectSeq(store, LAMBDA row : MatchesFilters(row, ret.query.filters)))} :
      Len(ret.value) =
        IF matching <= FilterLimit(ret.query.limit) THEN matching
        ELSE FilterLimit(ret.query.limit)

-----------------------------------------------------------------------------
(* Properties of the documents the orchestrator inserts *)

\* the rows of the run whose text is t and whose embedding call succeeds
Embedded(t) ==
  {k \in 1..Len(run.records) :
     /\ run.records[k].doc.text = t /\ run.records[k].embedOk
     /\ RowIsValid(run.records[k].doc)}

Stored(t) == {i \in 1..Len(store) : store[i].text = t}

\* C28: every document the orchestrator inserts carries the embedding that
\* was generated from its own text, also in a run in which embedding calls
\* fail, and a document whose embedding call failed is not inserted.
C28_EmbeddingAlignment ==
  run.variant = "part_003" =>
    /\ \A i \in 1..Len(store) : store[i].embedding = EmbeddingOf(store[i].text)
    /\ \A t \in {Str_long, Str_long_team} :
         Cardinality(Stored(t)) <= Cardinality(Embedded(t))

\* in a run without a failed embedding call the documents are aligned
AlignedWhenNoCallFails ==
  (/\ run.variant = "part_003"
   /\ \A k \in 1..Len(run.records) : run.records[k].embedOk) =>
    \A i \in 1..Len(store) : store[i].embedding = EmbeddingOf(store[i].text)

-----------------------------------------------------------------------------
(* Properties of the counts a run reports *)

OrchestratorReturned ==
  run.variant = "part_003" /\ run.pc = "done" /\ run.returned # None

InsertBatchStoredWhole ==
  [][\A writeOk \in BOOLEAN :
       IngestInsertBatch(writeOk) =>
         /\ ret'.warned = <<>>
         /\ Len(store') - Len(store) \in {0, Len(ret'.docs)}]_vars

-----------------------------------------------------------------------------
(* Properties of the failover under concurrent calls *)

\* the call sent its first request to the first region of the list
StartedAtFirstRegion(c) ==
  calls[c].tried # <<>> /\ calls[c].tried[1] = BEDROCK_REGIONS[1]

\* C29: when generateEmbedding calls are in flight together and share the
\* cursor, no region is skipped for any call: a call that started at the
\* first region sends its requests to the regions in the order of the list,
\* and it raises only after it has tried every region.
C29_ConcurrentFailover ==
  \A c \in Callers :
    StartedAtFirstRegion(c) =>
      /\ \A j \in 1..Len(calls[c].tried) : calls[c].tried[j] = BEDROCK_REGIONS[j]
      /\ calls[c].outcome = "raised" => ListedRegions \subseteq RegionsTried(c)

\* calls that are never in flight together are not affected
SequentialCallsSkipNothing ==
  \A c \in Callers :
    StartedAtFirstRegion(c) =>
      /\ \A j \in 1..Len(calls[c].tried) : calls[c].tried[j] = BEDROCK_REGIONS[j]
      /\ calls[c].outcome = "raised" => ListedRegions \subseteq RegionsTried(c)
      /\ calls[c].outcome = "raised" => calls[c].attempts = Len(BEDROCK_REGIONS)

====
